---- MODULE Spec2Model ----
(***************************************************************************)
(* YourGrokipedia: URL identification, cross-source mapping and the local  *)
(* slug resolver (app/utils/url_parser.py), the cached search-index client *)
(* (app/utils/sdk_manager.py), the article fetchers                        *)
(* (app/services/article_fetcher.py), the route handlers                   *)
(* (app/routes/main.py) and the provider chain and the prompt body of the  *)
(* generation services (app/services).                                     *)
(*                                                                         *)
(* A Python str is modelled as a sequence of one-character strings, so     *)
(* that parsing, percent-decoding and percent-encoding are computed        *)
(* character by character, as the library computes them.                   *)
(***************************************************************************)
EXTENDS Integers, Sequences, FiniteSets, TLC

VARIABLES
  \* --- url_parser.py: one URL pushed through the three functions
  u_pc,       \* next function to apply: "detect", "extract", "convert", "feed", "end"
  head0,      \* the head the first URL was composed with
  tail0,      \* the tail the first URL was composed with
  urls,       \* the URLs handled so far; the last one is the current input
  sources,    \* detect_source result for each URL handled
  titles,     \* extract_article_title outcome for each URL handled
  others,     \* convert_to_other_source outcome for each URL handled
  \* --- routes/main.py search_articles: one /search request
  s_pc,       \* "idle" before the request, "done" after the response
  s_query,    \* the q argument, stripped
  s_limit,    \* the limit after min(int(limit), 100)
  s_sdk,      \* is_sdk_available() / the cached client's condition
  s_exact,    \* what search_slug(fuzzy=False) or list_available_articles returned
  s_fuzzy,    \* what search_slug(fuzzy=True) returned, <<>> when not called
  s_calls,    \* the client calls made, in order
  s_resp,     \* the response: [status, results]
  \* --- services: one generation request through the provider chain
  g_pc,       \* "idle", "xai" or "openrouter" (call in flight), "done"
  g_kind,     \* generation kind
  g_xai,      \* XAI_API_KEY configured
  g_or,       \* OPENROUTER_API_KEY configured
  g_body,     \* the article record passed in has body text
  g_title,    \* subject title (rewrite) or name (biography)
  g_calls,    \* providers contacted, in order
  g_resps,    \* the provider responses received, in order
  g_result,   \* outcome of the request
  \* --- the index's relevance ranker: one ranking of a candidate list
  r_pc,       \* "idle", "done"
  r_query,    \* the query
  r_candidates, \* the candidate slugs, in input order
  r_limit,    \* the requested limit
  r_ranked,   \* the ordered Candidates returned: [slug, score]
  \* --- url_parser.py resolve_local_slug_if_available: one call
  v_pc,       \* "idle", "acquire", "lookup", "close", "done"
  v_raw,      \* the argument
  v_sdk,      \* is_sdk_available()
  v_found,    \* what find_slug returned or that it raised, held through finally
  v_calls,    \* the client calls made, in order: [call, ok]
  v_result,   \* outcome of the call
  \* --- sdk_manager.py get_cached_client: concurrent calls
  c_pc,       \* position of each thread in get_cached_client
  c_cached,   \* the module global _cached_client: 0 for None, else an instance
  c_sdk,      \* the module global _sdk_available
  c_built,    \* number of Client instances constructed so far
  c_local,    \* the instance each thread has constructed and not yet stored
  c_got,      \* what each thread's calls returned, in order
  \* --- routes/main.py: one POST request to compare, edits, create or biography
  a_pc,       \* "idle", "generate" (main generation call running), "done"
  a_route,    \* the handler
  a_data,     \* the JSON body
  a_env,      \* what the collaborators of the request return
  a_calls,    \* the calls to fetchers and generators made, in order
  a_resp,     \* the response: [status, payload]
  \* --- article_fetcher.py: one fetch of an article
  f_pc,       \* "idle", "done"
  f_kind,     \* "wikipedia" or "grokipedia"
  f_env,      \* what the upstream source holds and how its calls end
  f_calls,    \* the upstream calls made, in order
  f_record,   \* the record returned, None or that the fetch raised
  \* --- services: the article body of one prompt
  b_pc,       \* "idle" before the body is built, "done" after
  b_fn,       \* the generation function that builds the body
  b_record,   \* the article record passed in
  b_body      \* the body built

u_vars == <<u_pc, head0, tail0, urls, sources, titles, others>>
s_vars == <<s_pc, s_query, s_limit, s_sdk, s_exact, s_fuzzy, s_calls, s_resp>>
g_vars == <<g_pc, g_kind, g_xai, g_or, g_body, g_title, g_calls, g_resps, g_result>>
r_vars == <<r_pc, r_query, r_candidates, r_limit, r_ranked>>
v_vars == <<v_pc, v_raw, v_sdk, v_found, v_calls, v_result>>
c_vars == <<c_pc, c_cached, c_sdk, c_built, c_local, c_got>>
a_vars == <<a_pc, a_route, a_data, a_env, a_calls, a_resp>>
f_vars == <<f_pc, f_kind, f_env, f_calls, f_record>>
b_vars == <<b_pc, b_fn, b_record, b_body>>
n_vars == <<v_vars, c_vars, a_vars, f_vars, b_vars>>
vars == <<u_vars, s_vars, g_vars, r_vars, n_vars>>

----------------------------------------------------------------------------
(* Python str operations used by the code.                                 *)

\* F applied to the value of v, which is computed once.
With(v, F(_)) == CHOOSE y \in {F(x) : x \in {v}} : TRUE

\* Ascii[b + 1] is the character with byte value b; control characters are
\* written in caret notation and the grave accent by name.
Ascii ==
  << "^@", "^A", "^B", "^C", "^D", "^E", "^F", "^G", "^H", "^I", "^J", "^K", "^L", "^M", "^N", "^O",
     "^P", "^Q", "^R", "^S", "^T", "^U", "^V", "^W", "^X", "^Y", "^Z", "^[", "^\\", "^]", "^^", "^_",
     " ", "!", "\"", "#", "$", "%", "&", "'", "(", ")", "*", "+", ",", "-", ".", "/",
     "0", "1", "2", "3", "4", "5", "6", "7", "8", "9", ":", ";", "<", "=", ">", "?",
     "@", "A", "B", "C", "D", "E", "F", "G", "H", "I", "J", "K", "L", "M", "N", "O",
     "P", "Q", "R", "S", "T", "U", "V", "W", "X", "Y", "Z", "[", "\\", "]", "^", "_",
     "BACKTICK", "a", "b", "c", "d", "e", "f", "g", "h", "i", "j", "k", "l", "m", "n", "o",
     "p", "q", "r", "s", "t", "u", "v", "w", "x", "y", "z", "{", "|", "}", "~", "^?" >>

\* A character beyond ASCII is written "U+" and its code point in decimal.
Chr(cp) == IF cp < 128 THEN Ascii[cp + 1] ELSE "U+" \o ToString(cp)

\* U+FFFD, what errors='replace' puts for bytes that are not UTF-8.
ReplacementChar == "U+65533"

AsciiChars == {Ascii[b + 1] : b \in 0..127}

IsAscii(c) == c \in AsciiChars

\* ord() of the ASCII characters, as a table
AsciiOrd == [c \in AsciiChars |-> CHOOSE b \in 0..127 : Ascii[b + 1] = c]

Ord(c) ==
  IF IsAscii(c) THEN AsciiOrd[c]
  ELSE IF c = ReplacementChar THEN 65533
  ELSE CHOOSE cp \in 128..1114111 : Chr(cp) = c

UpperChars == {Ascii[b + 1] : b \in 65..90}

LowerChars == {Ascii[b + 1] : b \in 97..122}

DigitChars == {Ascii[b + 1] : b \in 48..57}

IsUpper(c) == c \in UpperChars

IsLowerAlpha(c) == c \in LowerChars

IsDigit(c) == c \in DigitChars

IsAlpha(c) == IsUpper(c) \/ IsLowerAlpha(c)

\* str.lower()
Lower(s) == [i \in 1..Len(s) |-> IF IsUpper(s[i]) THEN Chr(Ord(s[i]) + 32) ELSE s[i]]

\* s[i:] and s[:i] with Python's 0-based index i
From(s, i) == SubSeq(s, i + 1, Len(s))

Upto(s, i) == SubSeq(s, 1, i)

StartsWith(s, p) == Len(p) <= Len(s) /\ SubSeq(s, 1, Len(p)) = p

EndsWith(s, p) == Len(p) <= Len(s) /\ SubSeq(s, Len(s) - Len(p) + 1, Len(s)) = p

\* s.find(sub, start): the lowest 0-based index >= start where sub occurs, else -1
FindFrom(s, sub, start) ==
  LET hits == {i \in start..(Len(s) - Len(sub)) : SubSeq(s, i + 1, i + Len(sub)) = sub}
  IN IF hits = {} THEN -1 ELSE CHOOSE i \in hits : \A j \in hits : i <= j

Find(s, sub) == FindFrom(s, sub, 0)

\* s.rfind(sub)
RFind(s, sub) ==
  LET hits == {i \in 0..(Len(s) - Len(sub)) : SubSeq(s, i + 1, i + Len(sub)) = sub}
  IN IF hits = {} THEN -1 ELSE CHOOSE i \in hits : \A j \in hits : i >= j

\* sub in s
Contains(s, sub) == Find(s, sub) >= 0

\* s.split(sep, 1)[0] and s.split(sep, 1)[-1]
SplitHead(s, sep) == IF Contains(s, sep) THEN Upto(s, Find(s, sep)) ELSE s

SplitTail(s, sep) == IF Contains(s, sep) THEN From(s, Find(s, sep) + Len(sep)) ELSE s

\* s.replace(a, b) for single characters
Replace(s, a, b) == [i \in 1..Len(s) |-> IF s[i] = a THEN b ELSE s[i]]

\* s.lstrip(chars), s.rstrip(chars), s.strip(chars) for a set of characters
RECURSIVE LStrip(_, _)
LStrip(s, cs) == IF s # <<>> /\ Head(s) \in cs THEN LStrip(Tail(s), cs) ELSE s

RECURSIVE RStrip(_, _)
RStrip(s, cs) ==
  IF s # <<>> /\ s[Len(s)] \in cs THEN RStrip(Upto(s, Len(s) - 1), cs) ELSE s

Strip(s, cs) == RStrip(LStrip(s, cs), cs)

\* The whitespace str.strip() removes, within the ASCII range.
Whitespace == {" ", "^I", "^J", "^K", "^L", "^M", "^\\", "^]", "^^", "^_"}

----------------------------------------------------------------------------
(* urllib.parse as url_parser.py uses it: urlparse, unquote, quote,        *)
(* parse_qs.                                                               *)

HexDigits == <<"0", "1", "2", "3", "4", "5", "6", "7", "8", "9", "A", "B", "C", "D", "E", "F">>

HexChars == {HexDigits[k] : k \in 1..16} \cup {"a", "b", "c", "d", "e", "f"}

IsHex(c) == c \in HexChars

\* int(c, 16) for the hex digits, as a table
HexValues ==
  [c \in HexChars |-> (CHOOSE k \in 1..16 : Lower(<<HexDigits[k]>>) = Lower(<<c>>)) - 1]

HexVal(c) == HexValues[c]

\* unquote_to_bytes over the string: every %XX with two hex digits becomes
\* the byte XX, a '%' not followed by two hex digits is kept, an ASCII
\* character is its byte.  A character beyond ASCII is not part of any byte
\* run; it is carried as 256 + its code point.
RECURSIVE UnquoteToBytes(_)
UnquoteToBytes(s) ==
  IF s = <<>> THEN <<>>
  ELSE IF s[1] = "%" /\ Len(s) >= 3 /\ IsHex(s[2]) /\ IsHex(s[3])
       THEN <<16 * HexVal(s[2]) + HexVal(s[3])>> \o UnquoteToBytes(From(s, 3))
       ELSE IF IsAscii(s[1]) THEN <<Ord(s[1])>> \o UnquoteToBytes(Tail(s))
       ELSE <<256 + Ord(s[1])>> \o UnquoteToBytes(Tail(s))

\* Length of the UTF-8 sequence a lead byte announces, 0 for a byte that
\* cannot lead.
Utf8Need(b) ==
  IF b \in 194..223 THEN 2
  ELSE IF b \in 224..239 THEN 3
  ELSE IF b \in 240..244 THEN 4
  ELSE 0

\* The byte may come at position k (2..4) of a sequence led by b.
Utf8Continues(b, k, c) ==
  IF k = 2
  THEN CASE b = 224 -> c \in 160..191
         [] b = 237 -> c \in 128..159
         [] b = 240 -> c \in 144..191
         [] b = 244 -> c \in 128..143
         [] OTHER -> c \in 128..191
  ELSE c \in 128..191

\* How many bytes at the head of bs form a valid start of one sequence.
Utf8Prefix(bs) ==
  With(Utf8Need(bs[1]), LAMBDA need :
    With({k \in 2..need : k > Len(bs) \/ ~Utf8Continues(bs[1], k, bs[k])}, LAMBDA bad :
      IF bad = {} THEN need ELSE (CHOOSE k \in bad : \A j \in bad : k <= j) - 1))

Utf8CodePoint(bs, n) ==
  CASE n = 2 -> (bs[1] - 192) * 64 + (bs[2] - 128)
    [] n = 3 -> (bs[1] - 224) * 4096 + (bs[2] - 128) * 64 + (bs[3] - 128)
    [] n = 4 -> (bs[1] - 240) * 262144 + (bs[2] - 128) * 4096 + (bs[3] - 128) * 64 + (bs[4] - 128)

\* bytes.decode('utf-8', 'replace'): an ill-formed run gives one U+FFFD.
RECURSIVE Utf8Decode(_)
Utf8Decode(bs) ==
  IF bs = <<>> THEN <<>>
  ELSE IF bs[1] >= 256 THEN <<Chr(bs[1] - 256)>> \o Utf8Decode(Tail(bs))
  ELSE IF bs[1] < 128 THEN <<Chr(bs[1])>> \o Utf8Decode(Tail(bs))
  ELSE IF Utf8Need(bs[1]) = 0 THEN <<ReplacementChar>> \o Utf8Decode(Tail(bs))
  ELSE With(Utf8Prefix(bs), LAMBDA n :
         IF n = Utf8Need(bs[1])
         THEN <<Chr(Utf8CodePoint(bs, n))>> \o Utf8Decode(From(bs, n))
         ELSE <<ReplacementChar>> \o Utf8Decode(From(bs, n)))

\* unquote(string)
unquote(s) == With(UnquoteToBytes(s), Utf8Decode)

\* str.encode('utf-8') of one character
Utf8Encode(cp) ==
  IF cp < 128 THEN <<cp>>
  ELSE IF cp < 2048 THEN <<192 + (cp \div 64), 128 + (cp % 64)>>
  ELSE IF cp < 65536
  THEN <<224 + (cp \div 4096), 128 + ((cp \div 64) % 64), 128 + (cp % 64)>>
  ELSE <<240 + (cp \div 262144), 128 + ((cp \div 4096) % 64),
         128 + ((cp \div 64) % 64), 128 + (cp % 64)>>

RECURSIVE PercentEncode(_)
PercentEncode(bs) ==
  IF bs = <<>> THEN <<>>
  ELSE <<"%", HexDigits[(bs[1] \div 16) + 1], HexDigits[(bs[1] % 16) + 1]>> \o PercentEncode(Tail(bs))

\* Characters quote() never encodes: letters, digits and "_.-~".
AlwaysSafe(c) == IsAscii(c) /\ (IsAlpha(c) \/ IsDigit(c) \/ c \in {"_", ".", "-", "~"})

QuoteChar(c, safe) ==
  IF AlwaysSafe(c) \/ c \in safe THEN <<c>> ELSE PercentEncode(Utf8Encode(Ord(c)))

\* quote(string) called without safe=: '/' is left as it is.
RECURSIVE quote_slash_safe(_, _)
quote_slash_safe(s, safe) ==
  IF s = <<>> THEN <<>>
  ELSE QuoteChar(Head(s), safe \cup {"/"}) \o quote_slash_safe(Tail(s), safe)

\* quote(string, safe=...)
RECURSIVE quote(_, _)
quote(s, safe) ==
  IF s = <<>> THEN <<>> ELSE QuoteChar(Head(s), safe) \o quote(Tail(s), safe)

\* s.split(sep): all the pieces
RECURSIVE SplitAll(_, _)
SplitAll(s, sep) ==
  IF Contains(s, sep)
  THEN <<Upto(s, Find(s, sep))>> \o SplitAll(From(s, Find(s, sep) + Len(sep)), sep)
  ELSE <<s>>

C0ControlOrSpace == {Ascii[b + 1] : b \in 0..32}

UnsafeUrlBytes == {"^I", "^J", "^M"}

IsSchemeChar(c) == IsAlpha(c) \/ IsDigit(c) \/ c \in {"+", "-", "."}

\* Schemes whose path urlparse splits at ';'
uses_params ==
  { <<>>,
    <<"f", "t", "p">>,
    <<"h", "d", "l">>,
    <<"p", "r", "o", "s", "p", "e", "r", "o">>,
    <<"h", "t", "t", "p">>,
    <<"i", "m", "a", "p">>,
    <<"h", "t", "t", "p", "s">>,
    <<"s", "h", "t", "t", "p">>,
    <<"r", "t", "s", "p">>,
    <<"r", "t", "s", "p", "s">>,
    <<"r", "t", "s", "p", "u">>,
    <<"s", "i", "p">>,
    <<"s", "i", "p", "s">>,
    <<"m", "m", "s">>,
    <<"s", "f", "t", "p">>,
    <<"t", "e", "l">> }

\* The index where the netloc ends: the first of "/?#" at or after 2, else the end.
NetlocEnd(url) ==
  LET ds == {FindFrom(url, <<c>>, 2) : c \in {"/", "?", "#"}} \ {-1}
  IN IF ds = {} THEN Len(url) ELSE CHOOSE d \in ds : \A e \in ds : d <= e

\* A bracketed host must be an IP literal: hex digits, ':' and '.' (or a
\* v-prefixed IPvFuture); anything else raises ValueError.
BracketedHostOk(netloc) ==
  LET inner == SplitHead(SplitTail(netloc, <<"[">>), <<"]">>)
  IN inner # <<>> /\
     ((\A k \in 1..Len(inner) : IsHex(inner[k]) \/ inner[k] \in {":", "."})
      \/ Lower(<<inner[1]>>) = <<"v">>)

\* The index of the ':' that ends a valid scheme, else -1.
SchemeEnd(url) ==
  With(Find(url, <<":">>), LAMBDA i :
    IF i > 0 /\ IsAlpha(url[1]) /\ (\A k \in 1..i : IsSchemeChar(url[k])) THEN i ELSE -1)

\* The netloc check of urlsplit: unbalanced brackets, or a bracketed host
\* that is no IP literal, raise ValueError.
NetlocRaises(netloc) ==
  \/ Contains(netloc, <<"[">>) # Contains(netloc, <<"]">>)
  \/ (Contains(netloc, <<"[">>) /\ Contains(netloc, <<"]">>) /\ ~BracketedHostOk(netloc))

\* The rest of urlsplit once scheme and netloc are cut off.
SplitRest(scheme, hasNetloc, netloc, rest) ==
  With(SplitHead(rest, <<"#">>), LAMBDA beforeFragment :
    [raised |-> hasNetloc /\ NetlocRaises(netloc),
     scheme |-> scheme,
     netloc |-> netloc,
     path |-> SplitHead(beforeFragment, <<"?">>),
     query |-> IF Contains(beforeFragment, <<"?">>)
               THEN SplitTail(beforeFragment, <<"?">>) ELSE <<>>,
     fragment |-> IF Contains(rest, <<"#">>) THEN SplitTail(rest, <<"#">>) ELSE <<>>])

\* The url after its scheme: netloc when it starts with "//", then the rest.
SplitNetloc(scheme, url) ==
  IF StartsWith(url, <<"/", "/">>)
  THEN With(NetlocEnd(url), LAMBDA e :
         SplitRest(scheme, TRUE, SubSeq(url, 3, e), From(url, e)))
  ELSE SplitRest(scheme, FALSE, <<>>, url)

\* urlsplit(url): [raised, scheme, netloc, path, query, fragment]
urlsplit(url0) ==
  With(SelectSeq(LStrip(url0, C0ControlOrSpace), LAMBDA c : c \notin UnsafeUrlBytes),
       LAMBDA url : With(SchemeEnd(url), LAMBDA i :
         IF i > 0
         THEN With(From(url, i + 1), LAMBDA rest : SplitNetloc(Lower(Upto(url, i)), rest))
         ELSE SplitNetloc(<<>>, url)))

\* _splitparams(url)[0]: the path without its parameters
SplitParamsPath(url) ==
  With(IF Contains(url, <<"/">>)
       THEN FindFrom(url, <<";">>, RFind(url, <<"/">>))
       ELSE Find(url, <<";">>),
       LAMBDA i : IF i < 0 THEN url ELSE Upto(url, i))

\* urlparse(url): urlsplit, then the parameters are cut off the path
urlparse(url) ==
  With(urlsplit(url), LAMBDA r :
    IF ~r.raised /\ r.scheme \in uses_params /\ Contains(r.path, <<";">>)
    THEN [r EXCEPT !.path = SplitParamsPath(r.path)]
    ELSE r)

\* parse_qsl(qs): the (name, value) pairs of the fields that have an '=' and
\* a non-empty value; '+' is a space and both sides are percent-decoded.
parse_qsl(qs) ==
  With(SelectSeq(IF qs = <<>> THEN <<>> ELSE SplitAll(qs, <<"&">>),
                 LAMBDA f : Contains(f, <<"=">>) /\ SplitTail(f, <<"=">>) # <<>>),
       LAMBDA kept :
         [k \in 1..Len(kept) |->
            [name |-> unquote(Replace(SplitHead(kept[k], <<"=">>), "+", " ")),
             value |-> unquote(Replace(SplitTail(kept[k], <<"=">>), "+", " "))]])


----------------------------------------------------------------------------
(* app/utils/url_parser.py                                                 *)

\* What a call produces: a str, None, or an exception that escapes it.
Str(s) == [tag |-> "str", val |-> s]

None == [tag |-> "None", val |-> <<>>]

Raised == [tag |-> "raise", val |-> <<>>]

grokipedia_com == <<"g", "r", "o", "k", "i", "p", "e", "d", "i", "a", ".", "c", "o", "m">>

wikipedia_org == <<"w", "i", "k", "i", "p", "e", "d", "i", "a", ".", "o", "r", "g">>

m_wikipedia_org == <<"m", ".", "w", "i", "k", "i", "p", "e", "d", "i", "a", ".", "o", "r", "g">>

IsGrokipediaHost(host) == EndsWith(host, grokipedia_com)

IsWikipediaHost(host) == EndsWith(host, wikipedia_org) \/ EndsWith(host, m_wikipedia_org)

\* detect_source(url): "grokipedia", "wikipedia" or "None".  A ValueError of
\* urlparse is caught and the whole lower-cased url is taken as the host.
HostSource(host) ==
  IF IsGrokipediaHost(host) THEN "grokipedia"
  ELSE IF IsWikipediaHost(host) THEN "wikipedia"
  ELSE "None"

detect_source(url) ==
  With(urlparse(url), LAMBDA parsed :
    With(IF parsed.raised THEN Lower(url) ELSE Lower(parsed.netloc), HostSource))

normalize_slug(s) ==
  With(unquote(s), LAMBDA decoded :
    With(Replace(SplitHead(decoded, <<"#">>), " ", "_"), LAMBDA t : Strip(t, {"/"})))

\* qs.get('title', [None])[0]: the first value of the field named title
QueryTitle(query) ==
  With(SelectSeq(parse_qsl(query), LAMBDA f : f.name = <<"t", "i", "t", "l", "e">>),
       LAMBDA hits : IF hits = <<>> THEN None ELSE Str(hits[1].value))

\* The branches of extract_article_title on the parsed host, path and query.
TitleOf(host, path, query) ==
  IF IsGrokipediaHost(host)
  THEN IF Contains(path, <<"/", "p", "a", "g", "e", "/">>)
       THEN Str(normalize_slug(SplitTail(path, <<"/", "p", "a", "g", "e", "/">>)))
       ELSE None
  ELSE IF IsWikipediaHost(host)
  THEN IF Contains(path, <<"/", "w", "i", "k", "i", "/">>)
       THEN Str(normalize_slug(SplitTail(path, <<"/", "w", "i", "k", "i", "/">>)))
       ELSE IF Contains(query, <<"t", "i", "t", "l", "e", "=">>)
       THEN With(QueryTitle(query), LAMBDA title :
              IF title.tag = "str" THEN Str(normalize_slug(title.val)) ELSE None)
       ELSE None
  ELSE None

\* extract_article_title(url); urlparse is not guarded here, so its
\* ValueError escapes.
extract_article_title(url) ==
  With(urlparse(url), LAMBDA parsed :
    IF parsed.raised THEN Raised
    ELSE With(Lower(parsed.netloc), LAMBDA host : TitleOf(host, parsed.path, parsed.query)))

WikipediaTemplate == <<"h", "t", "t", "p", "s", ":", "/", "/", "e", "n", ".", "w", "i", "k", "i", "p", "e", "d", "i", "a", ".", "o", "r", "g", "/", "w", "i", "k", "i", "/">>

GrokipediaTemplate == <<"h", "t", "t", "p", "s", ":", "/", "/", "g", "r", "o", "k", "i", "p", "e", "d", "i", "a", ".", "c", "o", "m", "/", "p", "a", "g", "e", "/">>

\* The target URL built from the title as it is, without quote().
OtherUrl_unquoted(host, title) ==
  IF IsGrokipediaHost(host) THEN Str(WikipediaTemplate \o title)
  ELSE IF IsWikipediaHost(host) THEN Str(GrokipediaTemplate \o title)
  ELSE None

\* The target URL for a title extracted from a URL of the given host.
OtherUrl(host, title) ==
  With(quote(title, {"-", "_"}), LAMBDA safe_title :
    IF IsGrokipediaHost(host) THEN Str(WikipediaTemplate \o safe_title)
    ELSE IF IsWikipediaHost(host) THEN Str(GrokipediaTemplate \o safe_title)
    ELSE None)

\* convert_to_other_source(url)
convert_to_other_source(url) ==
  With(extract_article_title(url), LAMBDA title :
    IF title.tag = "raise" THEN Raised
    ELSE IF title.tag = "None" \/ title.val = <<>> THEN None
    ELSE With(Lower(urlparse(url).netloc), LAMBDA host : OtherUrl(host, title.val)))

----------------------------------------------------------------------------
(* The URLs the three functions are applied to: a head (scheme, host and   *)
(* path or query prefix) followed by a tail of at most MaxTail tokens.     *)

MaxTail == 2

\* How many times a converted URL is fed back into the functions.
MaxHops == 2

\* Pieces of a slug as written in a URL: plain text, a space, a path
\* separator, a fragment marker, a bare '%', two hex digits (which complete
\* an escape or follow one), and the escapes of '%', '#', '/' and of a byte
\* that is not UTF-8.
Tokens ==
  { <<"a">>, <<" ">>, <<"/", "a">>, <<"#">>, <<"%">>, <<"2", "5">>,
    <<"%", "2", "5">>, <<"%", "2", "3">>, <<"%", "2", "F">>, <<"%", "E", "9">> }

RECURSIVE Tails(_)
Tails(n) ==
  IF n = 0 THEN {<<>>}
  ELSE LET shorter == Tails(n - 1) IN shorter \cup {t \o tok : t \in shorter, tok \in Tokens}

Comcast == <<"C", "o", "m", "c", "a", "s", "t">>

\* host is the host text as written in the URL (empty when the URL has no
\* "//"); form says which slug pattern the head ends with.
Heads ==
  {
    [text |-> <<"h", "t", "t", "p", "s", ":", "/", "/", "g", "r", "o", "k", "i", "p", "e", "d", "i", "a", ".", "c", "o", "m", "/", "p", "a", "g", "e", "/">>,
     host |-> <<"g", "r", "o", "k", "i", "p", "e", "d", "i", "a", ".", "c", "o", "m">>, form |-> "page"],
    [text |-> <<"h", "t", "t", "p", "s", ":", "/", "/", "w", "w", "w", ".", "g", "r", "o", "k", "i", "p", "e", "d", "i", "a", ".", "c", "o", "m", "/", "p", "a", "g", "e", "/">>,
     host |-> <<"w", "w", "w", ".", "g", "r", "o", "k", "i", "p", "e", "d", "i", "a", ".", "c", "o", "m">>, form |-> "page"],
    [text |-> <<"h", "t", "t", "p", "s", ":", "/", "/", "n", "o", "t", "g", "r", "o", "k", "i", "p", "e", "d", "i", "a", ".", "c", "o", "m", "/", "p", "a", "g", "e", "/">>,
     host |-> <<"n", "o", "t", "g", "r", "o", "k", "i", "p", "e", "d", "i", "a", ".", "c", "o", "m">>, form |-> "page"],
    [text |-> <<"h", "t", "t", "p", "s", ":", "/", "/", "e", "n", ".", "w", "i", "k", "i", "p", "e", "d", "i", "a", ".", "o", "r", "g", "/", "w", "i", "k", "i", "/">>,
     host |-> <<"e", "n", ".", "w", "i", "k", "i", "p", "e", "d", "i", "a", ".", "o", "r", "g">>, form |-> "wiki"],
    [text |-> <<"h", "t", "t", "p", "s", ":", "/", "/", "e", "n", ".", "m", ".", "w", "i", "k", "i", "p", "e", "d", "i", "a", ".", "o", "r", "g", "/", "w", "i", "k", "i", "/">>,
     host |-> <<"e", "n", ".", "m", ".", "w", "i", "k", "i", "p", "e", "d", "i", "a", ".", "o", "r", "g">>, form |-> "wiki"],
    [text |-> <<"h", "t", "t", "p", "s", ":", "/", "/", "E", "N", ".", "W", "i", "k", "i", "p", "e", "d", "i", "a", ".", "o", "r", "g", "/", "w", "i", "k", "i", "/">>,
     host |-> <<"E", "N", ".", "W", "i", "k", "i", "p", "e", "d", "i", "a", ".", "o", "r", "g">>, form |-> "wiki"],
    [text |-> <<"h", "t", "t", "p", "s", ":", "/", "/", "e", "n", ".", "w", "i", "k", "i", "p", "e", "d", "i", "a", ".", "o", "r", "g", "/", "w", "/", "i", "n", "d", "e", "x", ".", "p", "h", "p", "?", "t", "i", "t", "l", "e", "=">>,
     host |-> <<"e", "n", ".", "w", "i", "k", "i", "p", "e", "d", "i", "a", ".", "o", "r", "g">>, form |-> "query"],
    [text |-> <<"h", "t", "t", "p", "s", ":", "/", "/", "e", "n", ".", "w", "i", "k", "i", "p", "e", "d", "i", "a", ".", "o", "r", "g", "/", "w", "/", "i", "n", "d", "e", "x", ".", "p", "h", "p", "?", "s", "u", "b", "t", "i", "t", "l", "e", "=">>,
     host |-> <<"e", "n", ".", "w", "i", "k", "i", "p", "e", "d", "i", "a", ".", "o", "r", "g">>, form |-> "none"],
    [text |-> <<"h", "t", "t", "p", "s", ":", "/", "/", "e", "x", "a", "m", "p", "l", "e", ".", "c", "o", "m", "/", "w", "i", "k", "i", "/">>,
     host |-> <<"e", "x", "a", "m", "p", "l", "e", ".", "c", "o", "m">>, form |-> "wiki"],
    [text |-> <<"h", "t", "t", "p", "s", ":", "/", "/", "g", "r", "o", "k", "i", "p", "e", "d", "i", "a", ".", "c", "o", "m", "/">>,
     host |-> <<"g", "r", "o", "k", "i", "p", "e", "d", "i", "a", ".", "c", "o", "m">>, form |-> "none"],
    [text |-> <<"g", "r", "o", "k", "i", "p", "e", "d", "i", "a", ".", "c", "o", "m", "/", "p", "a", "g", "e", "/">>,
     host |-> <<>>, form |-> "page"],
    [text |-> <<"h", "t", "t", "p", ":", "/", "/", "[", "g", "r", "o", "k", "i", "p", "e", "d", "i", "a", ".", "c", "o", "m", "/", "p", "a", "g", "e", "/">>,
     host |-> <<"[", "g", "r", "o", "k", "i", "p", "e", "d", "i", "a", ".", "c", "o", "m">>, form |-> "page"],
    [text |-> <<"h", "t", "t", "p", ":", "/", "/", "[", "e", "n", ".", "w", "i", "k", "i", "p", "e", "d", "i", "a", ".", "o", "r", "g">>,
     host |-> <<"[", "e", "n", ".", "w", "i", "k", "i", "p", "e", "d", "i", "a", ".", "o", "r", "g">>, form |-> "none"]
  }

Last(seq) == seq[Len(seq)]

UIdle ==
  /\ u_pc = "off" /\ head0 = [text |-> <<>>, host |-> <<>>, form |-> "none"]
  /\ tail0 = <<>> /\ urls = <<>> /\ sources = <<>> /\ titles = <<>> /\ others = <<>>

UInit ==
  /\ u_pc = "detect"
  /\ head0 \in Heads
  /\ tail0 \in Tails(MaxTail) \cup {Comcast}
  /\ urls = <<head0.text \o tail0>>
  /\ sources = <<>> /\ titles = <<>> /\ others = <<>>

DetectSource ==
  /\ u_pc = "detect"
  /\ sources' = Append(sources, detect_source(Last(urls)))
  /\ u_pc' = "extract"
  /\ UNCHANGED <<head0, tail0, urls, titles, others, s_vars, g_vars, r_vars, n_vars>>

ExtractArticleTitle ==
  /\ u_pc = "extract"
  /\ titles' = Append(titles, extract_article_title(Last(urls)))
  /\ u_pc' = "convert"
  /\ UNCHANGED <<head0, tail0, urls, sources, others, s_vars, g_vars, r_vars, n_vars>>

ConvertToOtherSource ==
  /\ u_pc = "convert"
  /\ others' = Append(others, convert_to_other_source(Last(urls)))
  /\ u_pc' = "feed"
  /\ UNCHANGED <<head0, tail0, urls, sources, titles, s_vars, g_vars, r_vars, n_vars>>

\* The URL convert_to_other_source returned becomes the next input.
FeedBack ==
  /\ u_pc = "feed"
  /\ Last(others).tag = "str"
  /\ Len(urls) <= MaxHops
  /\ urls' = Append(urls, Last(others).val)
  /\ u_pc' = "detect"
  /\ UNCHANGED <<head0, tail0, sources, titles, others, s_vars, g_vars, r_vars, n_vars>>


----------------------------------------------------------------------------
(* app/services: one generation request through the provider chain.       *)
(* A request contacts xAI first when XAI_API_KEY is set and OpenRouter     *)
(* when the code falls back (or when only OPENROUTER_API_KEY is set).      *)

MaxText == 2

TextChars == {"#", " ", "b"}

RECURSIVE TextsUpTo(_)
TextsUpTo(n) ==
  IF n = 0 THEN {<<>>}
  ELSE LET shorter == TextsUpTo(n - 1)
       IN shorter \cup {Append(t, c) : t \in shorter, c \in TextChars}

Texts == TextsUpTo(MaxText)

Titles == {<<>>, <<"T">>}

Kinds == {"edits", "summary", "compare", "rewrite", "biography"}

\* What a provider call can come back with: a transport exception or
\* timeout (exc), an HTTP status, and for 200 a body that is invalid JSON,
\* JSON without the expected fields, or JSON carrying the text.
\* A 429 response carries its Retry-After header: absent (None) or a value.
RetryHeaders ==
  {None, Str(<<>>), Str(<<"0">>), Str(<<"1", "2">>), Str(<<"-", "3">>),
   Str(<<"7", ".", "5">>), Str(<<"x">>)}

Responses ==
  {[exc |-> TRUE, status |-> 0, json |-> "none", text |-> <<>>, retry |-> None]}
  \cup {[exc |-> FALSE, status |-> 500, json |-> "none", text |-> <<>>, retry |-> None]}
  \cup {[exc |-> FALSE, status |-> 429, json |-> "none", text |-> <<>>, retry |-> h] :
          h \in RetryHeaders}
  \cup {[exc |-> FALSE, status |-> 200, json |-> j, text |-> <<>>, retry |-> None] :
          j \in {"invalid", "nofields"}}
  \cup {[exc |-> FALSE, status |-> 200, json |-> "ok", text |-> t, retry |-> None] : t \in Texts}

\* A result: the text returned, None, or the exception raised (by class);
\* retry is the retry_after_seconds of an XAIRateLimitError, {} for None.
Text(t) == [tag |-> "text", text |-> t, retry |-> {}]

Outcome(tag) == [tag |-> tag, text |-> <<>>, retry |-> {}]

\* XAIRateLimitError(..., retry_after_seconds=hint)
RateLimited(hint) == [tag |-> "RateLimited", text |-> <<>>, retry |-> hint]

\* The value of a digit string; int() allows single underscores inside.
RECURSIVE DigitsValue(_, _)
DigitsValue(s, acc) ==
  IF s = <<>> THEN acc
  ELSE IF Head(s) = "_" THEN DigitsValue(Tail(s), acc)
  ELSE DigitsValue(Tail(s), 10 * acc + Ord(Head(s)) - 48)

IsIntLiteral(d) ==
  /\ d # <<>> /\ IsDigit(d[1]) /\ IsDigit(d[Len(d)])
  /\ \A i \in 1..Len(d) : IsDigit(d[i]) \/ d[i] = "_"
  /\ \A i \in 1..(Len(d) - 1) : ~(d[i] = "_" /\ d[i + 1] = "_")

\* int(s) for a str: {n} for the value, {} when int raises ValueError.
ParseInt(s) ==
  With(Strip(s, Whitespace), LAMBDA t :
    With(IF t # <<>> /\ t[1] \in {"+", "-"} THEN Tail(t) ELSE t, LAMBDA d :
      IF ~IsIntLiteral(d) THEN {}
      ELSE IF t[1] = "-" THEN {0 - DigitsValue(d, 0)} ELSE {DigitsValue(d, 0)}))

\* edits_service.py lines 165-171: the hint read from the Retry-After header.
RetryAfterSeconds(header) ==
  IF header.tag = "str" /\ header.val # <<>> THEN ParseInt(header.val) ELSE {}

Go(pc) == [pc |-> pc, result |-> Outcome("pending")]

Done(result) == [pc |-> "done", result |-> result]

\* content.strip()
StripWs(s) == Strip(s, Whitespace)

\* The call failed before any text could be read from a chat-completions
\* response: exception, non-200 status, bad JSON or missing fields.
ChatFailed(resp) == resp.exc \/ resp.status # 200 \/ resp.json # "ok"

\* The text collected from a Responses-API body: the output_text blocks in
\* order, "" when the body has none.
OutputText(resp) == IF resp.json = "ok" THEN resp.text ELSE <<>>

\* The call raised inside the try block of a Responses-API request:
\* exception, raise_for_status() on a non-200 status, or response.json().
ResponsesFailed(resp) == resp.exc \/ resp.status # 200 \/ resp.json = "invalid"

\* f"# {title}\n\n{content}"
WithHeading(title, content) == <<"#", " ">> \o title \o <<"^J", "^J">> \o content

\* not content.startswith('#'), the test without lstrip()
LacksHeading_without_lstrip(content) == ~StartsWith(content, <<"#">>)

\* not content.lstrip().startswith('#')
LacksHeading(content) == ~StartsWith(LStrip(content, Whitespace), <<"#">>)

\* generate_grokipedia_article, xAI branch: the heading is added when the
\* title and the content are non-empty and the content has no heading.
CoerceTitleXai(title, content) ==
  IF title # <<>> /\ content # <<>> /\ LacksHeading(content)
  THEN WithHeading(title, content) ELSE content

\* generate_grokipedia_article, OpenRouter branch, on the stripped content.
CoerceTitleOpenRouter(title, content) ==
  IF title # <<>> /\ LacksHeading(content)
  THEN WithHeading(title, content) ELSE content

\* generate_biography: the heading is added whenever the content lacks one.
CoerceName(name, content) ==
  IF LacksHeading(content) THEN WithHeading(name, content) ELSE content

\* --- edits_service.generate_edit_suggestions

\* The entry without the test that a key is configured.
edits_start_without_key_test(xai, or, body) ==
  IF ~body THEN Done(Outcome("ValueError"))
  ELSE IF xai THEN Go("xai") ELSE Go("openrouter")

edits_start(xai, or, body) ==
  IF ~xai /\ ~or THEN Done(Outcome("RuntimeError"))
  ELSE IF ~body THEN Done(Outcome("ValueError"))
  ELSE IF xai THEN Go("xai") ELSE Go("openrouter")

\* From the 429 test to the return, on the response finally held.
edits_finish(resp) ==
  IF resp.status = 429 THEN Done(RateLimited(RetryAfterSeconds(resp.retry)))
  ELSE IF resp.status # 200 THEN Done(Outcome("HTTPError"))
  ELSE IF resp.json = "invalid" THEN Done(Outcome("JSONDecodeError"))
  ELSE IF resp.json = "nofields" \/ resp.text = <<>> THEN Done(Outcome("RuntimeError"))
  ELSE Done(Text(StripWs(resp.text)))

\* The same with a second attempt on xAI in place of the fallback.
edits_on_xai_again(resp, or) ==
  IF resp.exc THEN Done(Outcome("RequestException"))
  ELSE IF resp.status # 200 /\ or THEN Go("xai")
  ELSE edits_finish(resp)

\* After the first requests.post: any non-200 status of xAI, 429 included,
\* goes to OpenRouter when both keys are set.
edits_on_xai(resp, or) ==
  IF resp.exc THEN Done(Outcome("RequestException"))
  ELSE IF resp.status # 200 /\ or THEN Go("openrouter")
  ELSE edits_finish(resp)

edits_on_openrouter(resp) ==
  IF resp.exc THEN Done(Outcome("RequestException")) ELSE edits_finish(resp)

\* --- comparison_service._make_api_request (TLDR and Wikipedia summary)

summary_start(xai, or) ==
  IF ~xai /\ ~or THEN Done(Outcome("None"))
  ELSE IF xai THEN Go("xai") ELSE Go("openrouter")

\* The same going on to OpenRouter whatever xAI answered.
summary_on_xai_then_fallback(resp, or) ==
  IF or THEN Go("openrouter")
  ELSE IF ~ChatFailed(resp) THEN Done(Text(StripWs(resp.text)))
  ELSE Done(Outcome("None"))

summary_on_xai(resp, or) ==
  IF ~ChatFailed(resp) THEN Done(Text(StripWs(resp.text)))
  ELSE IF or THEN Go("openrouter")
  ELSE Done(Outcome("None"))

summary_on_openrouter(resp) ==
  IF ChatFailed(resp) THEN Done(Outcome("None")) ELSE Done(Text(StripWs(resp.text)))

\* --- comparison_service.compare_articles

compare_start(xai, or) ==
  IF ~xai /\ ~or THEN Done(Outcome("None"))
  ELSE IF xai THEN Go("xai") ELSE Go("openrouter")

\* A 200 response with no text falls through to the OpenRouter section.
compare_on_xai(resp, or) ==
  IF ~ResponsesFailed(resp) /\ OutputText(resp) # <<>>
  THEN Done(Text(StripWs(OutputText(resp))))
  ELSE IF or THEN Go("openrouter")
  ELSE Done(Outcome("None"))

compare_on_openrouter(resp) ==
  IF ChatFailed(resp) THEN Done(Outcome("None")) ELSE Done(Text(StripWs(resp.text)))

\* --- comparison_service.generate_grokipedia_article

rewrite_start(xai, or, body) ==
  IF ~body THEN Done(Outcome("None"))
  ELSE IF xai THEN Go("xai")
  ELSE IF or THEN Go("openrouter")
  ELSE Done(Outcome("None"))

\* A 200 response with no text returns None without trying OpenRouter.
rewrite_on_xai(resp, or, title) ==
  IF ResponsesFailed(resp)
  THEN IF or THEN Go("openrouter") ELSE Done(Outcome("None"))
  ELSE IF OutputText(resp) = <<>> THEN Done(Outcome("None"))
  ELSE Done(Text(StripWs(CoerceTitleXai(title, OutputText(resp)))))

rewrite_on_openrouter(resp, title) ==
  IF ChatFailed(resp) THEN Done(Outcome("None"))
  ELSE Done(Text(CoerceTitleOpenRouter(title, StripWs(resp.text))))

\* --- biography_service.generate_biography: xAI only

biography_start(xai) == IF ~xai THEN Done(Outcome("None")) ELSE Go("xai")

biography_on_xai(resp, name) ==
  IF ResponsesFailed(resp) \/ OutputText(resp) = <<>> THEN Done(Outcome("None"))
  ELSE Done(Text(StripWs(CoerceName(name, OutputText(resp)))))

\* --- the request as a state machine

GIdle ==
  /\ g_pc = "off" /\ g_kind = "none" /\ g_xai = FALSE /\ g_or = FALSE /\ g_body = FALSE
  /\ g_title = <<>> /\ g_calls = <<>> /\ g_resps = <<>> /\ g_result = Outcome("pending")

\* The route always passes a non-empty name to generate_biography; an
\* article record may have a blank title.
GInit ==
  /\ g_pc = "idle"
  /\ g_kind \in Kinds
  /\ g_xai \in BOOLEAN /\ g_or \in BOOLEAN
  /\ g_body \in (IF g_kind \in {"edits", "rewrite"} THEN BOOLEAN ELSE {TRUE})
  /\ g_title \in (IF g_kind = "rewrite" THEN Titles
                  ELSE IF g_kind = "biography" THEN Titles \ {<<>>} ELSE {<<>>})
  /\ g_calls = <<>> /\ g_resps = <<>> /\ g_result = Outcome("pending")

Step(next) ==
  /\ g_pc' = next.pc
  /\ g_result' = next.result
  /\ g_calls' = IF next.pc \in {"xai", "openrouter"} THEN Append(g_calls, next.pc) ELSE g_calls

\* Entry of the function up to its first provider call or early return.
StartRequest ==
  /\ g_pc = "idle"
  /\ Step(CASE g_kind = "edits" -> edits_start(g_xai, g_or, g_body)
            [] g_kind = "summary" -> summary_start(g_xai, g_or)
            [] g_kind = "compare" -> compare_start(g_xai, g_or)
            [] g_kind = "rewrite" -> rewrite_start(g_xai, g_or, g_body)
            [] g_kind = "biography" -> biography_start(g_xai))
  /\ UNCHANGED <<g_kind, g_xai, g_or, g_body, g_title, g_resps, u_vars, s_vars, r_vars, n_vars>>

\* The xAI call returns; the function runs to its OpenRouter call or its end.
XaiResponds ==
  /\ g_pc = "xai"
  /\ \E resp \in Responses :
       /\ g_resps' = Append(g_resps, resp)
       /\ Step(CASE g_kind = "edits" -> edits_on_xai(resp, g_or)
                 [] g_kind = "summary" -> summary_on_xai(resp, g_or)
                 [] g_kind = "compare" -> compare_on_xai(resp, g_or)
                 [] g_kind = "rewrite" -> rewrite_on_xai(resp, g_or, g_title)
                 [] g_kind = "biography" -> biography_on_xai(resp, g_title))
  /\ UNCHANGED <<g_kind, g_xai, g_or, g_body, g_title, u_vars, s_vars, r_vars, n_vars>>

\* The OpenRouter call returns; the function runs to its end.
OpenRouterResponds ==
  /\ g_pc = "openrouter"
  /\ \E resp \in Responses :
       /\ g_resps' = Append(g_resps, resp)
       /\ Step(CASE g_kind = "edits" -> edits_on_openrouter(resp)
                 [] g_kind = "summary" -> summary_on_openrouter(resp)
                 [] g_kind = "compare" -> compare_on_openrouter(resp)
                 [] g_kind = "rewrite" -> rewrite_on_openrouter(resp, g_title))
  /\ UNCHANGED <<g_kind, g_xai, g_or, g_body, g_title, u_vars, s_vars, r_vars, n_vars>>

----------------------------------------------------------------------------
(* app/routes/main.py search_articles: one GET /search request.  The SDK   *)
(* client is an external collaborator: what its searches return is drawn   *)
(* from the duplicate-free lists of at most limit known slugs.             *)

MaxLimit == 3

Tesla == <<"T", "e", "s", "l", "a">>

Tesla_Inc == <<"T", "e", "s", "l", "a", "_", "I", "n", "c">>

Tesla_Motors_Club == <<"T", "e", "s", "l", "a", "_", "M", "o", "t", "o", "r", "s", "_", "C", "l", "u", "b">>

Elon_Musk == <<"E", "l", "o", "n", "_", "M", "u", "s", "k">>

Slugs == {Tesla, Tesla_Inc, Tesla_Motors_Club, Elon_Musk}

q_tesla == <<"t", "e", "s", "l", "a">>

q_te == <<"T", "e">>

q_url == <<"h", "t", "t", "p", "s", ":", "/", "/", "g", "r", "o", "k", "i", "p", "e", "d", "i", "a", ".", "c", "o", "m", "/", "p", "a", "g", "e", "/", "T", "e", "s", "l", "a", "_", "I", "n", "c">>

q_bad_url == <<"h", "t", "t", "p", ":", "/", "/", "[", "g", "r", "o", "k", "i", "p", "e", "d", "i", "a", ".", "c", "o", "m">>

Queries == {<<>>, q_tesla, q_te, q_url, q_bad_url}

Range(seq) == {seq[i] : i \in 1..Len(seq)}

RECURSIVE DistinctSeqs(_, _)
DistinctSeqs(S, n) ==
  IF n = 0 THEN {<<>>}
  ELSE LET shorter == DistinctSeqs(S, n - 1)
       IN shorter \cup {Append(q, x) : q \in shorter, x \in S}

\* Lists a search of the index can return for a given limit.
SdkResults(limit) == {q \in DistinctSeqs(Slugs, limit) : Cardinality(Range(q)) = Len(q)}

SdkStates == {"ok", "unavailable", "raises"}

\* The loop over fuzzy_slugs: a slug is appended when it is not in seen and
\* the list is still below the limit (seen always holds the list's slugs).
RECURSIVE MergeFuzzy_without_seen(_, _, _)
MergeFuzzy_without_seen(slugs, fuzzy_slugs, limit) ==
  IF fuzzy_slugs = <<>> THEN slugs
  ELSE MergeFuzzy_without_seen(IF Len(slugs) < limit
                               THEN Append(slugs, Head(fuzzy_slugs)) ELSE slugs,
                               Tail(fuzzy_slugs), limit)

RECURSIVE MergeFuzzy(_, _, _)
MergeFuzzy(slugs, fuzzy_slugs, limit) ==
  IF fuzzy_slugs = <<>> THEN slugs
  ELSE LET slug == Head(fuzzy_slugs)
       IN MergeFuzzy(IF slug \notin Range(slugs) /\ Len(slugs) < limit
                     THEN Append(slugs, slug) ELSE slugs,
                     Tail(fuzzy_slugs), limit)

\* One entry of the results list
ResultEntry(slug) ==
  [slug |-> slug, title |-> Replace(slug, "_", " "),
   url |-> GrokipediaTemplate \o quote(slug, {})]

Response(status, slugs) ==
  [status |-> status, results |-> [i \in 1..Len(slugs) |-> ResultEntry(slugs[i])]]

\* The query searched for: the slug of a recognised URL with spaces for
\* underscores, else the text as typed.  extract_article_title is called
\* outside the try block, so its exception leaves the handler.
SearchQuery(q) ==
  IF detect_source(q) = "None" THEN [raised |-> FALSE, query |-> q]
  ELSE With(extract_article_title(q), LAMBDA slug :
         [raised |-> slug.tag = "raise",
          query |-> IF slug.tag = "str" /\ slug.val # <<>>
                    THEN Replace(slug.val, "_", " ") ELSE q])

\* The handler from the SDK check on, given the query searched for, what
\* the SDK is and what its searches would return: [resp, calls, exact, fuzzy].
search_slugs(query, limit, sdk, exact, fuzzy) ==
  LET out(resp, calls, e, f) == [resp |-> resp, calls |-> calls, exact |-> e, fuzzy |-> f]
  IN IF sdk = "unavailable" THEN out(Response(500, <<>>), <<>>, <<>>, <<>>)
     ELSE IF Len(query) <= 2
     THEN IF sdk = "raises"
          THEN out(Response(500, <<>>), <<"list_available_articles">>, <<>>, <<>>)
          ELSE out(Response(200, exact), <<"list_available_articles">>, exact, <<>>)
     ELSE IF sdk = "raises" THEN out(Response(500, <<>>), <<"search_exact">>, <<>>, <<>>)
     ELSE IF Len(exact) < limit
     THEN out(Response(200, MergeFuzzy(exact, fuzzy, limit)),
              <<"search_exact", "search_fuzzy">>, exact, fuzzy)
     ELSE out(Response(200, exact), <<"search_exact">>, exact, <<>>)

SIdle ==
  /\ s_pc = "off" /\ s_query = <<>> /\ s_limit = 0 /\ s_sdk = "ok"
  /\ s_exact = <<>> /\ s_fuzzy = <<>> /\ s_calls = <<>> /\ s_resp = Response(0, <<>>)

SInit ==
  /\ s_pc = "idle"
  /\ s_query \in Queries
  /\ s_limit \in 1..MaxLimit
  /\ s_sdk = "ok" /\ s_exact = <<>> /\ s_fuzzy = <<>> /\ s_calls = <<>>
  /\ s_resp = Response(0, <<>>)

Answer(out, sdk) ==
  /\ s_sdk' = sdk
  /\ s_exact' = out.exact
  /\ s_fuzzy' = out.fuzzy
  /\ s_calls' = out.calls
  /\ s_resp' = out.resp

\* GET /search.  Status 0 stands for an exception that leaves the handler.
SearchArticles ==
  /\ s_pc = "idle"
  /\ \E resolved \in {SearchQuery(s_query)} :
       \E sdk \in SdkStates, exact \in SdkResults(s_limit), fuzzy \in SdkResults(s_limit) :
         Answer(IF s_query = <<>>
                THEN [resp |-> Response(200, <<>>), calls |-> <<>>, exact |-> <<>>, fuzzy |-> <<>>]
                ELSE IF resolved.raised
                THEN [resp |-> Response(0, <<>>), calls |-> <<>>, exact |-> <<>>, fuzzy |-> <<>>]
                ELSE search_slugs(resolved.query, s_limit, sdk, exact, fuzzy), sdk)
  /\ s_pc' = "done"
  /\ UNCHANGED <<s_query, s_limit, u_vars, g_vars, r_vars, n_vars>>

----------------------------------------------------------------------------
(* The relevance ranker of the search index (grokipedia-sdk, which          *)
(* search_articles calls through client.search_slug): scores candidate     *)
(* slugs against a query in tiers and orders them.                         *)

MaxCandidates == 3

q_tesla_inc == <<"t", "e", "s", "l", "a", " ", "i", "n", "c">>

q_inc == <<"i", "n", "c">>

q_sl == <<"s", "l">>

q_la_in == <<"l", "a", " ", "i", "n">>

q_musk_tesla == <<"m", "u", "s", "k", " ", "t", "e", "s", "l", "a">>

q_club_x == <<"l", "u", "b", " ", "x">>

RankQueries == {q_tesla, q_tesla_inc, q_inc, q_sl, q_la_in, q_musk_tesla, q_club_x}

\* The slug as it is compared: underscores to spaces, lower-cased.
NormalizedSlug(slug) == Lower(Replace(slug, "_", " "))

\* The words of a text: its non-empty pieces between spaces.
Words(s) == SelectSeq(SplitAll(s, <<" ">>), LAMBDA w : w # <<>>)

\* 1-based index of the first word containing sub, 0 when there is none.
FirstWordContaining(ws, sub) ==
  IF \E i \in 1..Len(ws) : Contains(ws[i], sub)
  THEN CHOOSE i \in 1..Len(ws) :
         Contains(ws[i], sub) /\ \A j \in 1..(i - 1) : ~Contains(ws[j], sub)
  ELSE 0

\* Tier 6 for one query word: 100 when some slug word contains it, plus 50
\* when the first such slug word starts with it.
WordContribution(ws, qw) ==
  With(FirstWordContaining(ws, qw), LAMBDA i :
    IF i = 0 THEN 0 ELSE IF StartsWith(ws[i], qw) THEN 150 ELSE 100)

RECURSIVE FallbackScore(_, _)
FallbackScore(ws, qws) ==
  IF qws = <<>> THEN 0 ELSE WordContribution(ws, Head(qws)) + FallbackScore(ws, Tail(qws))

\* The tiers with the whole-word test ahead of the prefix test.
TierScoreOf_word_before_prefix(query, name, ws) ==
  IF name = query THEN 10000
  ELSE IF \E i \in 1..Len(ws) : ws[i] = query THEN 3000
  ELSE IF StartsWith(name, query) THEN 5000
  ELSE IF \E i \in 1..Len(ws) : Contains(ws[i], query) THEN 1000
  ELSE IF Contains(name, query) THEN 500
  ELSE FallbackScore(ws, Words(query))

\* The base score of the first matching tier; 0 means the candidate is dropped.
TierScoreOf(query, name, ws) ==
  IF name = query THEN 10000
  ELSE IF StartsWith(name, query) THEN 5000
  ELSE IF \E i \in 1..Len(ws) : ws[i] = query THEN 3000
  ELSE IF \E i \in 1..Len(ws) : Contains(ws[i], query) THEN 1000
  ELSE IF Contains(name, query) THEN 500
  ELSE FallbackScore(ws, Words(query))

TierScore(query, slug) ==
  With(NormalizedSlug(slug), LAMBDA name : TierScoreOf(query, name, Words(name)))

LengthPenalty(slug) == 2 * Len(Words(NormalizedSlug(slug)))

\* max(0, 100 - 20 * index) for the 0-based index of the first slug word
\* containing the query, 0 when no word contains it.
PositionBonus(query, slug) ==
  With(FirstWordContaining(Words(NormalizedSlug(slug)), query), LAMBDA i :
    IF i = 0 \/ 100 - 20 * (i - 1) < 0 THEN 0 ELSE 100 - 20 * (i - 1))

FinalScore(query, slug) ==
  TierScore(query, slug) - LengthPenalty(slug) + PositionBonus(query, slug)

\* The scored candidates in input order, without the dropped ones.
Scored(query, candidates) ==
  With([i \in 1..Len(candidates) |->
          [slug |-> candidates[i], tier |-> TierScore(query, candidates[i]),
           score |-> FinalScore(query, candidates[i])]],
       LAMBDA all : SelectSeq(all, LAMBDA c : c.tier # 0))

\* Insertion in ascending order of score.
RECURSIVE InsertByScore_ascending(_, _)
InsertByScore_ascending(sorted, c) ==
  IF sorted = <<>> THEN <<c>>
  ELSE IF Head(sorted).score <= c.score
  THEN <<Head(sorted)>> \o InsertByScore_ascending(Tail(sorted), c)
  ELSE <<c>> \o sorted

\* Stable insertion: c goes after every entry whose score is not smaller.
RECURSIVE InsertByScore(_, _)
InsertByScore(sorted, c) ==
  IF sorted = <<>> THEN <<c>>
  ELSE IF Head(sorted).score >= c.score
  THEN <<Head(sorted)>> \o InsertByScore(Tail(sorted), c)
  ELSE <<c>> \o sorted

RECURSIVE SortByScore(_)
SortByScore(cs) ==
  IF cs = <<>> THEN <<>>
  ELSE InsertByScore(SortByScore(SubSeq(cs, 1, Len(cs) - 1)), cs[Len(cs)])

\* Highest score first, ties in input order, truncated to the limit.
Rank(query, candidates, limit) ==
  With(SortByScore(Scored(query, candidates)), LAMBDA sorted :
    [i \in 1..(IF Len(sorted) < limit THEN Len(sorted) ELSE limit) |->
       [slug |-> sorted[i].slug, score |-> sorted[i].score]])

RIdle ==
  /\ r_pc = "off" /\ r_query = <<>> /\ r_candidates = <<>> /\ r_limit = 0 /\ r_ranked = <<>>

RInit ==
  /\ r_pc = "idle"
  /\ r_query \in RankQueries
  /\ r_candidates \in SdkResults(MaxCandidates)
  /\ r_limit \in 1..MaxLimit
  /\ r_ranked = <<>>

RankCandidates ==
  /\ r_pc = "idle"
  /\ r_ranked' = Rank(r_query, r_candidates, r_limit)
  /\ r_pc' = "done"
  /\ UNCHANGED <<r_query, r_candidates, r_limit, u_vars, s_vars, g_vars, n_vars>>

----------------------------------------------------------------------------
(* app/utils/url_parser.py resolve_local_slug_if_available: one call.  The *)
(* SDK client is an external collaborator: creating it, find_slug and      *)
(* close can each return or raise.                                         *)

\* An argument that is not a str (the isinstance test of line 64).
NotStr == [tag |-> "int", val |-> <<>>]

RawInputs == {None, NotStr, Str(<<>>), Str(Tesla), Str(q_tesla), Str(q_te), Str(q_tesla_inc)}

\* What client.find_slug can come back with.
FindSlugOutcomes == {None, Raised} \cup {Str(s) : s \in Slugs}

Call(name, ok) == [call |-> name, ok |-> ok]

\* The call has not returned yet.
Pending == [tag |-> "pending", val |-> <<>>]

\* Lines 64-68: the argument and availability tests before the client is
\* created.
resolve_enter(raw, sdk) ==
  IF raw.tag # "str" \/ raw.val = <<>> THEN "done"
  ELSE IF ~sdk THEN "done"
  ELSE "acquire"

\* Where control goes after find_slug without the finally clause: an
\* exception leaves for the handler of line 77 at once.
AfterFindSlug_without_finally(found) == IF found = Raised THEN "done" ELSE "close"

\* Lines 72-76: the finally clause runs client.close() whether find_slug
\* returned or raised.
AfterFindSlug(found) == "close"

\* Lines 74-78: what the call returns once close has run.  An exception of
\* find_slug or of close reaches `except Exception` and gives None.
resolve_return(found, close_ok) ==
  IF close_ok /\ found # Raised THEN found ELSE None

VIdle ==
  /\ v_pc = "off" /\ v_raw = None /\ v_sdk = FALSE /\ v_found = None
  /\ v_calls = <<>> /\ v_result = Pending

VInit ==
  /\ v_pc = "idle" /\ v_raw \in RawInputs /\ v_sdk \in BOOLEAN /\ v_found = None
  /\ v_calls = <<>> /\ v_result = Pending

\* Entry of the function up to get_sdk_client() or an early `return None`.
ResolveEnter ==
  /\ v_pc = "idle"
  /\ v_pc' = resolve_enter(v_raw, v_sdk)
  /\ v_result' = IF v_pc' = "done" THEN None ELSE v_result
  /\ UNCHANGED <<v_raw, v_sdk, v_found, v_calls, u_vars, s_vars, g_vars, r_vars, c_vars, a_vars, f_vars, b_vars>>

\* get_sdk_client() returns a new client or raises.
GetSdkClient ==
  /\ v_pc = "acquire"
  /\ \E ok \in BOOLEAN :
       /\ v_calls' = Append(v_calls, Call("get_sdk_client", ok))
       /\ v_pc' = IF ok THEN "lookup" ELSE "done"
       /\ v_result' = IF ok THEN v_result ELSE None
  /\ UNCHANGED <<v_raw, v_sdk, v_found, u_vars, s_vars, g_vars, r_vars, c_vars, a_vars, f_vars, b_vars>>

\* client.find_slug(raw) returns a slug or None, or raises.
FindSlug ==
  /\ v_pc = "lookup"
  /\ \E found \in FindSlugOutcomes :
       /\ v_found' = found
       /\ v_calls' = Append(v_calls, Call("find_slug", found # Raised))
       /\ v_pc' = AfterFindSlug(found)
       /\ v_result' = IF v_pc' = "done" THEN None ELSE v_result
  /\ UNCHANGED <<v_raw, v_sdk, u_vars, s_vars, g_vars, r_vars, c_vars, a_vars, f_vars, b_vars>>

\* client.close() in the finally clause returns or raises; the function ends.
CloseClient ==
  /\ v_pc = "close"
  /\ \E ok \in BOOLEAN :
       /\ v_calls' = Append(v_calls, Call("close", ok))
       /\ v_result' = resolve_return(v_found, ok)
  /\ v_pc' = "done"
  /\ UNCHANGED <<v_raw, v_sdk, v_found, u_vars, s_vars, g_vars, r_vars, c_vars, a_vars, f_vars, b_vars>>

----------------------------------------------------------------------------
(* app/utils/sdk_manager.py get_cached_client: calls made by concurrent    *)
(* request threads.  The function takes no lock, so a thread can be        *)
(* preempted between the test of line 53, the construction of the client   *)
(* and the store into the module global.                                   *)

NumThreads == 2

MaxCalls == 2

Threads == 1..NumThreads

\* Line 53: `_cached_client is None and _sdk_available`; 0 stands for None.
MustConstruct(cached, sdk) == cached = 0 /\ sdk

CIdle ==
  /\ c_pc = [t \in Threads |-> "off"] /\ c_cached = 0 /\ c_sdk = FALSE /\ c_built = 0
  /\ c_local = [t \in Threads |-> 0] /\ c_got = [t \in Threads |-> <<>>]

CInit ==
  /\ c_pc = [t \in Threads |-> "idle"] /\ c_cached = 0 /\ c_sdk \in BOOLEAN /\ c_built = 0
  /\ c_local = [t \in Threads |-> 0] /\ c_got = [t \in Threads |-> <<>>]

\* A thread enters get_cached_client and evaluates the test of line 53.
CheckCached ==
  \E t \in Threads :
    /\ c_pc[t] = "idle" /\ Len(c_got[t]) < MaxCalls
    /\ c_pc' = [c_pc EXCEPT ![t] = IF MustConstruct(c_cached, c_sdk) THEN "construct" ELSE "return"]
    /\ UNCHANGED <<c_cached, c_sdk, c_built, c_local, c_got, u_vars, s_vars, g_vars, r_vars, v_vars, a_vars, f_vars, b_vars>>

\* Lines 55-64: the thread builds the index and a Client (Client() when the
\* index or the first Client raised); instances are numbered as built.
ConstructClient ==
  \E t \in Threads :
    /\ c_pc[t] = "construct"
    /\ c_built' = c_built + 1
    /\ c_local' = [c_local EXCEPT ![t] = c_built + 1]
    /\ c_pc' = [c_pc EXCEPT ![t] = "store"]
    /\ UNCHANGED <<c_cached, c_sdk, c_got, u_vars, s_vars, g_vars, r_vars, v_vars, a_vars, f_vars, b_vars>>

\* Lines 62/64: the assignment to the global _cached_client.
StoreClient ==
  \E t \in Threads :
    /\ c_pc[t] = "store"
    /\ c_cached' = c_local[t]
    /\ c_pc' = [c_pc EXCEPT ![t] = "return"]
    /\ UNCHANGED <<c_sdk, c_built, c_local, c_got, u_vars, s_vars, g_vars, r_vars, v_vars, a_vars, f_vars, b_vars>>

\* Line 66: `return _cached_client` reads the global as it is now.
ReturnCached ==
  \E t \in Threads :
    /\ c_pc[t] = "return"
    /\ c_got' = [c_got EXCEPT ![t] = Append(@, c_cached)]
    /\ c_pc' = [c_pc EXCEPT ![t] = "idle"]
    /\ UNCHANGED <<c_cached, c_sdk, c_built, c_local, u_vars, s_vars, g_vars, r_vars, v_vars, a_vars, f_vars, b_vars>>

----------------------------------------------------------------------------
(* app/services/article_fetcher.py: one call of scrape_wikipedia or of     *)
(* fetch_grokipedia_article.  The Wikipedia APIs, Firecrawl and the SDK    *)
(* client are external collaborators: what they hold and how each call     *)
(* ends is chosen freely.                                                  *)

MaxSections == 12

\* sections[:5] and table_of_contents[:5]
SectionCap == 5

\* .get('sections', [])[:10]
SectionScan == 10

SectionLetters == <<"a", "b", "c", "d", "e", "f", "g", "h", "i", "j", "k", "l", "m", "n">>

\* The heading of the i-th upstream section.
Section(i) == <<"S", SectionLetters[i]>>

References == <<"R", "e", "f", "e", "r", "e", "n", "c", "e", "s">>

SEE_ALSO == <<"S", "E", "E", " ", "A", "L", "S", "O">>

\* Line 173: the headings scrape_wikipedia leaves out, compared lower-cased.
ExcludedHeadings ==
  { <<"r", "e", "f", "e", "r", "e", "n", "c", "e", "s">>,
    <<"e", "x", "t", "e", "r", "n", "a", "l", " ", "l", "i", "n", "k", "s">>,
    <<"s", "e", "e", " ", "a", "l", "s", "o">>,
    <<"n", "o", "t", "e", "s">> }

\* Upstream lists of n entries: the first k are entries the loop leaves out
\* (no 'line' key, an empty line, an excluded heading), entry b is not a
\* JSON object (s.get raises), the others are headings.
SectionLists ==
  { [i \in 1..n |-> IF i = b THEN Raised ELSE IF i <= k THEN d ELSE Str(Section(i))] :
      n \in 0..MaxSections, k \in 0..MaxSections, b \in 0..MaxSections,
      d \in {None, Str(<<>>), Str(References), Str(SEE_ALSO)} }

\* Lines 171-176: the loop over the entries; an exception ends the loop and
\* the headings collected so far are kept.
RECURSIVE KeepLines(_)
KeepLines(entries) ==
  IF entries = <<>> \/ Head(entries) = Raised THEN <<>>
  ELSE IF Head(entries).tag = "str" /\ Head(entries).val # <<>>
          /\ Lower(Head(entries).val) \notin ExcludedHeadings
  THEN <<Head(entries).val>> \o KeepLines(Tail(entries))
  ELSE KeepLines(Tail(entries))

\* The record's sections without the [:5] slice.
Capped_without_slice(sections) == sections

\* sections[:5]
Capped(sections) ==
  SubSeq(sections, 1, IF Len(sections) < SectionCap THEN Len(sections) ELSE SectionCap)

\* An article record; of its fields the model keeps the sections.
Record(sections) == [tag |-> "record", val |-> sections]

\* A call made: its argument, how it ended, and the slug find_slug returned.
Call3(name, arg, out) == [call |-> name, arg |-> arg, out |-> out, val |-> <<>>]

Fetched(record, calls) == [record |-> record, calls |-> calls]

\* scrape_wikipedia from the summary request on, for a non-empty title.
\* Only requests.RequestException is caught (line 202): a failed GET or
\* raise_for_status() gives None.
scrape_title(title, summary, sections, entries, extract) ==
  LET get(what, out) == Call3(what, title, out)
  IN IF summary # "ok" THEN Fetched(None, <<get("summary", summary)>>)
     ELSE IF sections = "exc"
     THEN Fetched(None, <<get("summary", summary), get("sections", sections)>>)
     ELSE IF extract = "exc"
     THEN Fetched(None, <<get("summary", summary), get("sections", sections),
                          get("extract", extract)>>)
     ELSE Fetched(Record(Capped(IF sections = "ok"
                                THEN KeepLines(SubSeq(entries, 1,
                                       IF Len(entries) < SectionScan THEN Len(entries)
                                       ELSE SectionScan))
                                ELSE <<>>)),
                  <<get("summary", summary), get("sections", sections),
                    get("extract", extract)>>)

\* scrape_wikipedia(url), given what extract_article_title(url) returns:
\* the call is inside the try block but its ValueError is not a
\* RequestException, so it leaves the function.
scrape_wikipedia(title, summary, sections, entries, extract) ==
  IF title.tag = "raise" THEN Fetched(Raised, <<>>)
  ELSE IF title.tag = "None" \/ title.val = <<>> THEN Fetched(None, <<>>)
  ELSE scrape_title(title.val, summary, sections, entries, extract)

\* What client.get_article can end with.
GetArticleOutcomes == {"article", "ArticleNotFound", "RequestError", "Exception"}

\* The retry test without the comparison with the slug asked for.
ShouldRetry_without_differs(slug, resolved) ==
  resolved.tag = "str" /\ resolved.val # <<>>

\* Line 270: `if resolved_slug and resolved_slug != slug`
ShouldRetry(slug, resolved) ==
  resolved.tag = "str" /\ resolved.val # <<>> /\ resolved.val # slug

fetch_by_slug_without_finally(slug, env) ==
  LET get1 == Call3("get_article", slug, env.first)
      find == [Call3("find_slug", slug, env.find.tag) EXCEPT !.val = env.find.val]
      get2 == Call3("get_article", env.find.val, env.second)
      close == Call3("close", <<>>, IF env.close_ok THEN "ok" ELSE "Exception")
      article == Record(Capped([i \in 1..Len(env.toc) |-> env.toc[i].val]))
      body ==
        IF env.first = "article" THEN Fetched(article, <<get1, close>>)
        ELSE IF env.first = "RequestError" THEN Fetched(None, <<get1, close>>)
        ELSE IF env.first # "ArticleNotFound" THEN Fetched(None, <<get1>>)
        ELSE IF env.find.tag = "raise" THEN Fetched(None, <<get1, find>>)
        ELSE IF ~ShouldRetry(slug, env.find) THEN Fetched(None, <<get1, find, close>>)
        ELSE IF env.second = "article" THEN Fetched(article, <<get1, find, get2, close>>)
        ELSE IF env.second = "Exception" THEN Fetched(None, <<get1, find, get2>>)
        ELSE Fetched(None, <<get1, find, get2, close>>)
  IN IF ~env.client_ok THEN Fetched(None, <<Call3("get_sdk_client", <<>>, "Exception")>>)
     ELSE Fetched(IF env.close_ok \/ Last(body.calls).call # "close" THEN body.record ELSE None,
                  <<Call3("get_sdk_client", <<>>, "ok")>> \o body.calls)

\* Lines 258-293: the SDK path for a non-empty slug.  env gives how each
\* client call ends and the table of contents the source holds.  Every
\* exception, that of close() in the finally clause included, ends in
\* `return None` (lines 280, 286, 291).
fetch_by_slug(slug, env) ==
  LET get1 == Call3("get_article", slug, env.first)
      find == [Call3("find_slug", slug, env.find.tag) EXCEPT !.val = env.find.val]
      get2 == Call3("get_article", env.find.val, env.second)
      close == Call3("close", <<>>, IF env.close_ok THEN "ok" ELSE "Exception")
      article == Record(Capped([i \in 1..Len(env.toc) |-> env.toc[i].val]))
      body ==
        IF env.first = "article" THEN Fetched(article, <<get1>>)
        ELSE IF env.first # "ArticleNotFound" THEN Fetched(None, <<get1>>)
        ELSE IF env.find.tag = "raise" THEN Fetched(None, <<get1, find>>)
        ELSE IF ~ShouldRetry(slug, env.find) THEN Fetched(None, <<get1, find>>)
        ELSE IF env.second = "article" THEN Fetched(article, <<get1, find, get2>>)
        ELSE Fetched(None, <<get1, find, get2>>)
  IN IF ~env.client_ok THEN Fetched(None, <<Call3("get_sdk_client", <<>>, "Exception")>>)
     ELSE Fetched(IF env.close_ok THEN body.record ELSE None,
                  <<Call3("get_sdk_client", <<>>, "ok")>> \o body.calls \o <<close>>)

\* Line 254: parsed.path.split('/page/')[-1].strip('/')
PageSlug(path) ==
  Strip(IF Contains(path, <<"/", "p", "a", "g", "e", "/">>)
        THEN From(path, RFind(path, <<"/", "p", "a", "g", "e", "/">>) + 6)
        ELSE path, {"/"})

\* What scrape_with_firecrawl can end with: None (no key, request failed,
\* unsuccessful scrape), a result with or without markdown, or an exception
\* that is not a RequestException (a payload of another shape).
FirecrawlOutcomes == {"None", "markdown", "empty", "raise"}

\* fetch_grokipedia_article(url)
fetch_grokipedia_article(url, firecrawl, sdk, env) ==
  IF firecrawl = "raise" THEN Fetched(Raised, <<Call3("firecrawl", url, firecrawl)>>)
  ELSE IF firecrawl = "markdown"
  THEN Fetched(Record(<<>>), <<Call3("firecrawl", url, firecrawl)>>)
  ELSE IF ~sdk THEN Fetched(None, <<Call3("firecrawl", url, firecrawl)>>)
  ELSE With(urlparse(url), LAMBDA parsed :
    IF parsed.raised \/ PageSlug(parsed.path) = <<>>
    THEN Fetched(None, <<Call3("firecrawl", url, firecrawl)>>)
    ELSE With(fetch_by_slug(PageSlug(parsed.path), env), LAMBDA got :
           Fetched(got.record, <<Call3("firecrawl", url, firecrawl)>> \o got.calls)))

WikipediaUrls ==
  { WikipediaTemplate \o Tesla, WikipediaTemplate,
    <<"h", "t", "t", "p", ":", "/", "/", "[", "e", "n", ".", "w", "i", "k", "i", "p", "e", "d", "i", "a", ".", "o", "r", "g">> }

GrokipediaUrls == {GrokipediaTemplate \o Tesla, GrokipediaTemplate, q_bad_url}

\* How the client calls of one fetch end.
ClientEnvs ==
  [client_ok : BOOLEAN, first : GetArticleOutcomes,
   find : {None, Raised, Str(<<>>), Str(Tesla), Str(Tesla_Inc)},
   second : GetArticleOutcomes, close_ok : BOOLEAN,
   toc : {[i \in 1..n |-> IF i = r THEN Str(References) ELSE Str(Section(i))] :
            n \in 0..MaxSections, r \in {0, 2}}]

FIdle ==
  /\ f_pc = "off" /\ f_kind = "none" /\ f_env = <<>> /\ f_calls = <<>> /\ f_record = Pending

FInit ==
  /\ f_pc = "idle" /\ f_kind \in {"wikipedia", "grokipedia"}
  /\ f_env = <<>> /\ f_calls = <<>> /\ f_record = Pending

Fetch(got, upstream) ==
  /\ f_env' = upstream
  /\ f_calls' = got.calls
  /\ f_record' = got.record
  /\ f_pc' = "done"
  /\ UNCHANGED <<f_kind, u_vars, s_vars, g_vars, r_vars, v_vars, c_vars, a_vars, b_vars>>

ScrapeWikipedia ==
  /\ f_pc = "idle" /\ f_kind = "wikipedia"
  /\ \E url \in WikipediaUrls :
       \E title \in {extract_article_title(url)}, summary \in {"exc", "404", "500", "ok"},
          sections \in {"exc", "notok", "badjson", "ok"}, entries \in SectionLists,
          extract \in {"exc", "notok", "ok"} :
         Fetch(scrape_wikipedia(title, summary, sections, entries, extract), entries)

FetchGrokipediaArticle ==
  /\ f_pc = "idle" /\ f_kind = "grokipedia"
  /\ \E url \in GrokipediaUrls, firecrawl \in FirecrawlOutcomes, sdk \in BOOLEAN,
        env \in ClientEnvs :
       Fetch(fetch_grokipedia_article(url, firecrawl, sdk, env), env.toc)

----------------------------------------------------------------------------
(* app/routes/main.py compare, edits, create and biography: one POST       *)
(* request.  The handler runs up to its main generation call, the call     *)
(* runs through the provider chain above, and the handler then builds its  *)
(* response.  The slug resolver, the fetchers, the slug index and the      *)
(* TLDR/summary generators are collaborators whose results are chosen      *)
(* freely among what they can return.                                      *)

\* A key the JSON body does not have.
Absent == [tag |-> "absent", val |-> <<>>]

BadWikipediaUrl == q_bad_url \o <<".", "w", "i", "k", "i", "p", "e", "d", "i", "a", ".", "o", "r", "g">>

\* Values of article_url: absent, null, blank, URLs of both sources with and
\* without a slug, URLs urlparse rejects, and free text.
ArticleUrls ==
  {Absent, None, Str(<<>>), Str(<<" ">>),
   Str(GrokipediaTemplate \o Tesla), Str(WikipediaTemplate \o Tesla),
   Str(GrokipediaTemplate), Str(q_bad_url), Str(BadWikipediaUrl), Str(q_tesla_inc)}

Topics == {Absent, None, Str(<<" ">>), Str(<<"T">>)}

Handles == {Absent, Str(<<" ">>), Str(<<"@", "h">>)}

\* An article record as the handlers use it: whether it has body text, and
\* its title.
Article(body, title) == [tag |-> "record", val |-> [body |-> body, title |-> title]]

\* What a fetcher can end with: None, a record, or an exception.
FetchOutcomes == {None, Raised, Article(TRUE, <<"T">>), Article(FALSE, <<"T">>)}

\* The slug index as the existence check of create finds it.
IndexOutcomes ==
  {Str(<<"u", "n", "a", "v", "a", "i", "l", "a", "b", "l", "e">>), None, Raised}
  \cup {[tag |-> "slugs", val |-> l] : l \in {<<>>, <<Tesla_Inc, Tesla>>}}

\* The collaborators' results for one request.
Envs ==
  [resolved : {None, Str(Tesla)}, grok : FetchOutcomes, wiki : FetchOutcomes,
   tldr : BOOLEAN, index : IndexOutcomes]

\* (data.get(key) or '').strip()
FieldOrEmpty(field) == IF field.tag = "str" THEN StripWs(field.val) ELSE <<>>

\* data.get('article_url', '').strip() of compare: the default applies to an
\* absent key only, and None has no strip().
FieldStrict(field) == IF field.tag = "None" THEN Raised ELSE Str(FieldOrEmpty(field))

Error(message) == [error |-> message]

NoGen == [kind |-> "none", body |-> FALSE, title |-> <<>>]

\* The handler returned a response.
Reply(status, payload, calls) ==
  [pc |-> "done", status |-> status, payload |-> payload, calls |-> calls, gen |-> NoGen]

\* `except Exception`: the handler's 500 response.
InternalError(calls) == Reply(500, Error("Internal server error"), calls)

\* The handler reached its main generation call.
Generate(kind, record, payload, calls) ==
  [pc |-> "generate", status |-> 0, payload |-> payload, calls |-> calls,
   gen |-> [kind |-> kind, body |-> record.val.body, title |-> record.val.title]]

Truthy(value) == value.tag = "str" /\ value.val # <<>>

\* f"https://grokipedia.com/page/{quote(resolved_slug, safe='')}"
PageUrl(slug) == GrokipediaTemplate \o quote(slug, {})

\* The grokipedia data with the TLDR the handler adds when there is one.
WithTldr(record, tldr) == [record |-> record, tldr |-> tldr]

\* --- compare

\* Lines 159-164 with the two tests exchanged.
Missing_exchanged(grok, wiki) ==
  (IF wiki.tag = "None" THEN <<"Grokipedia article not found">> ELSE <<>>)
  \o (IF grok.tag = "None" THEN <<"Wikipedia article not found">> ELSE <<>>)

\* Lines 159-163: the sides that were not fetched.
Missing(grok, wiki) ==
  (IF grok.tag = "None" THEN <<"Grokipedia article not found">> ELSE <<>>)
  \o (IF wiki.tag = "None" THEN <<"Wikipedia article not found">> ELSE <<>>)

\* ' and '.join(missing) if missing else None
JoinAnd(missing) ==
  IF missing = <<>> THEN "None"
  ELSE IF Len(missing) = 1 THEN missing[1]
  ELSE missing[1] \o " and " \o missing[2]

compare_fetch_either(source, grokipedia_url, wikipedia_url, calls, env) ==
  LET fetches == IF source = "grokipedia"
                 THEN <<"fetch_grokipedia_article", "scrape_wikipedia">>
                 ELSE <<"scrape_wikipedia", "fetch_grokipedia_article">>
      first == IF source = "grokipedia" THEN env.grok ELSE env.wiki
      second == IF source = "grokipedia" THEN env.wiki ELSE env.grok
      results == [grokipedia |-> WithTldr(env.grok, FALSE), grokipedia_url |-> grokipedia_url,
                  wikipedia |-> [record |-> env.wiki, article_summary |-> FALSE],
                  wikipedia_url |-> wikipedia_url]
  IN IF first.tag = "raise" THEN InternalError(calls \o <<fetches[1]>>)
     ELSE IF second.tag = "raise" THEN InternalError(calls \o fetches)
     ELSE IF env.grok.tag = "record" \/ env.wiki.tag = "record"
     THEN Generate("compare", IF env.grok.tag = "record" THEN env.grok ELSE env.wiki,
                   results, calls \o fetches \o <<"compare_articles">>)
     ELSE Reply(200, ("comparison" :> Outcome("None"))
                       @@ ("comparison_error" :> JoinAnd(Missing(env.grok, env.wiki)))
                       @@ results,
                calls \o fetches)

\* Lines 121-166: both fetches, in the order of the source given, and the
\* response when a side is missing.
compare_fetch(source, grokipedia_url, wikipedia_url, calls, env) ==
  LET fetches == IF source = "grokipedia"
                 THEN <<"fetch_grokipedia_article", "scrape_wikipedia">>
                 ELSE <<"scrape_wikipedia", "fetch_grokipedia_article">>
      first == IF source = "grokipedia" THEN env.grok ELSE env.wiki
      second == IF source = "grokipedia" THEN env.wiki ELSE env.grok
      results == [grokipedia |-> WithTldr(env.grok, FALSE), grokipedia_url |-> grokipedia_url,
                  wikipedia |-> [record |-> env.wiki, article_summary |-> FALSE],
                  wikipedia_url |-> wikipedia_url]
  IN IF first.tag = "raise" THEN InternalError(calls \o <<fetches[1]>>)
     ELSE IF second.tag = "raise" THEN InternalError(calls \o fetches)
     ELSE IF env.grok.tag = "record" /\ env.wiki.tag = "record"
     THEN Generate("compare", env.grok, results, calls \o fetches \o <<"compare_articles">>)
     ELSE Reply(200, ("comparison" :> Outcome("None"))
                       @@ ("comparison_error" :> JoinAnd(Missing(env.grok, env.wiki)))
                       @@ results,
                calls \o fetches)

\* Lines 117-119: the URL of the other source.
compare_convert(source, article_url, calls, env) ==
  With(convert_to_other_source(article_url), LAMBDA other_url :
    IF other_url.tag = "raise" THEN InternalError(calls)
    ELSE IF other_url.tag = "None"
    THEN Reply(400, Error("Could not extract article title from URL"), calls)
    ELSE IF source = "grokipedia"
    THEN compare_fetch(source, article_url, other_url.val, calls, env)
    ELSE compare_fetch(source, other_url.val, article_url, calls, env))

\* Lines 98-170, given the stripped article_url (or that strip raised).
compare_url(article_url, env) ==
  IF article_url.tag = "raise" THEN InternalError(<<>>)
  ELSE IF article_url.val = <<>> THEN Reply(400, Error("Please provide an article URL"), <<>>)
  ELSE With(detect_source(article_url.val), LAMBDA source :
    IF source # "None" THEN compare_convert(source, article_url.val, <<>>, env)
    ELSE IF Truthy(env.resolved)
    THEN compare_convert("grokipedia", PageUrl(env.resolved.val),
                         <<"resolve_local_slug_if_available">>, env)
    ELSE Reply(400, Error("Invalid input. Provide a Grokipedia/Wikipedia URL or a recognizable article name."),
               <<"resolve_local_slug_if_available">>))

compare(data, env) == compare_url(FieldStrict(data.article_url), env)

\* Lines 148-156 and 166: the response once compare_articles has returned.
compare_respond(payload, result, tldr, summary) ==
  [status |-> 200,
   payload |-> ("comparison" :> result)
                 @@ ("grokipedia" :> WithTldr(payload.grokipedia.record, tldr))
                 @@ ("wikipedia" :> [record |-> payload.wikipedia.record,
                                     article_summary |-> summary])
                 @@ payload]

\* --- edits

\* The 404 response sent after the TLDR has been asked for.
edits_not_found_after_tldr(calls) ==
  Reply(404, Error("Grokipedia article not found"),
        calls \o <<"fetch_grokipedia_article", "generate_grokipedia_tldr">>)

\* Lines 200-201: the 404 response, straight after the fetch.
edits_not_found(calls) ==
  Reply(404, Error("Grokipedia article not found"), calls \o <<"fetch_grokipedia_article">>)

\* Lines 199-207, given the Grokipedia URL.
edits_fetch(grokipedia_url, calls, env) ==
  IF env.grok.tag = "raise" THEN InternalError(calls \o <<"fetch_grokipedia_article">>)
  ELSE IF env.grok.tag = "None" THEN edits_not_found(calls)
  ELSE Generate("edits", env.grok,
                [grokipedia |-> WithTldr(env.grok, env.tldr), grokipedia_url |-> grokipedia_url],
                calls \o <<"fetch_grokipedia_article", "generate_grokipedia_tldr",
                           "generate_edit_suggestions">>)

\* Lines 176-207.  The ValueError urlparse raises inside
\* convert_to_other_source is caught by `except (RuntimeError, ValueError)`.
edits(data, env) ==
  With(FieldOrEmpty(data.article_url), LAMBDA article_url :
    IF article_url = <<>> THEN Reply(400, Error("Please provide an article URL"), <<>>)
    ELSE With(detect_source(article_url), LAMBDA source :
      IF source = "grokipedia" THEN edits_fetch(article_url, <<>>, env)
      ELSE IF source = "wikipedia"
      THEN With(convert_to_other_source(article_url), LAMBDA grokipedia_url :
             IF grokipedia_url.tag = "raise" THEN Reply(400, Error("ValueError"), <<>>)
             ELSE IF grokipedia_url.tag = "None"
             THEN Reply(400, Error("Could not extract Grokipedia slug from URL"), <<>>)
             ELSE edits_fetch(grokipedia_url.val, <<>>, env))
      ELSE IF Truthy(env.resolved)
      THEN edits_fetch(PageUrl(env.resolved.val), <<"resolve_local_slug_if_available">>, env)
      ELSE Reply(400, Error("Provide a Grokipedia URL or recognizable article name"),
                 <<"resolve_local_slug_if_available">>)))

\* The test of the hint by truth value: a hint of 0 is left out.
HasHint_truthy(hint) == hint # {} /\ hint # {0}

\* Line 217: getattr(e, 'retry_after_seconds', None) is not None
HasHint(hint) == hint # {}

\* The response with a transport exception answered as an input error.
edits_respond_transport_as_input(payload, result) ==
  IF result.tag = "text" THEN [status |-> 200, payload |-> ("edits" :> result) @@ payload]
  ELSE IF result.tag = "RateLimited"
  THEN [status |-> 429,
        payload |-> IF HasHint(result.retry)
                    THEN ("retry_after_seconds" :> result.retry) @@ Error("RateLimited")
                    ELSE Error("RateLimited")]
  ELSE IF result.tag \in {"RuntimeError", "ValueError", "JSONDecodeError", "RequestException"}
  THEN [status |-> 400, payload |-> Error(result.tag)]
  ELSE [status |-> 500, payload |-> Error("Internal server error")]

\* Lines 209-224: the response once generate_edit_suggestions has returned
\* or raised.  A JSONDecodeError of requests is a ValueError.
edits_respond(payload, result) ==
  IF result.tag = "text" THEN [status |-> 200, payload |-> ("edits" :> result) @@ payload]
  ELSE IF result.tag = "RateLimited"
  THEN [status |-> 429,
        payload |-> IF HasHint(result.retry)
                    THEN ("retry_after_seconds" :> result.retry) @@ Error("RateLimited")
                    ELSE Error("RateLimited")]
  ELSE IF result.tag \in {"RuntimeError", "ValueError", "JSONDecodeError"}
  THEN [status |-> 400, payload |-> Error(result.tag)]
  ELSE [status |-> 500, payload |-> Error("Internal server error")]

\* --- create

\* slug.lower().replace('_', ' ')
Normalized(slug) == Replace(Lower(slug), "_", " ")

\* Lines 275-280: the first slug equal to the search slug, case and
\* underscores aside; None when there is none.
RECURSIVE ExactMatch(_, _)
ExactMatch(search_slug, slugs) ==
  IF slugs = <<>> THEN None
  ELSE IF Normalized(Head(slugs)) = Normalized(search_slug) THEN Str(Head(slugs))
  ELSE ExactMatch(search_slug, Tail(slugs))

\* Lines 303-308: the Wikipedia fetch and what follows it.
create_fetch(wikipedia_url, calls, env) ==
  IF env.wiki.tag = "raise" THEN InternalError(calls \o <<"scrape_wikipedia">>)
  ELSE IF env.wiki.tag = "None"
  THEN Reply(404, Error("Wikipedia article not found"), calls \o <<"scrape_wikipedia">>)
  ELSE Generate("rewrite", env.wiki,
                [existing_article |-> FALSE, wikipedia |-> env.wiki,
                 wikipedia_url |-> wikipedia_url],
                calls \o <<"scrape_wikipedia", "generate_grokipedia_article">>)

create_check_failing(search_slug, wikipedia_url, calls, env) ==
  IF ~Truthy(search_slug) \/ env.index.tag = "str" \/ env.index.tag = "None"
  THEN create_fetch(wikipedia_url, calls, env)
  ELSE IF env.index.tag = "raise"
  THEN InternalError(calls \o <<"search_slug">>)
  ELSE With(ExactMatch(search_slug.val, env.index.val), LAMBDA exact_match :
    IF exact_match.tag = "None"
    THEN create_fetch(wikipedia_url, calls \o <<"search_slug">>, env)
    ELSE IF env.grok.tag = "record"
    THEN Reply(200, [existing_article |-> TRUE, grokipedia |-> WithTldr(env.grok, env.tldr),
                     grokipedia_url |-> PageUrl(exact_match.val)],
               calls \o <<"search_slug", "fetch_grokipedia_article", "generate_grokipedia_tldr">>)
    ELSE IF env.grok.tag = "raise"
    THEN InternalError(calls \o <<"search_slug", "fetch_grokipedia_article">>)
    ELSE create_fetch(wikipedia_url, calls \o <<"search_slug", "fetch_grokipedia_article">>, env))

\* Lines 265-308: the check for an existing Grokipedia article; every
\* exception inside it is logged and the handler goes on to generate.
create_check(search_slug, wikipedia_url, calls, env) ==
  IF ~Truthy(search_slug) \/ env.index.tag = "str" \/ env.index.tag = "None"
  THEN create_fetch(wikipedia_url, calls, env)
  ELSE IF env.index.tag = "raise"
  THEN create_fetch(wikipedia_url, calls \o <<"search_slug">>, env)
  ELSE With(ExactMatch(search_slug.val, env.index.val), LAMBDA exact_match :
    IF exact_match.tag = "None"
    THEN create_fetch(wikipedia_url, calls \o <<"search_slug">>, env)
    ELSE IF env.grok.tag = "record"
    THEN Reply(200, [existing_article |-> TRUE, grokipedia |-> WithTldr(env.grok, env.tldr),
                     grokipedia_url |-> PageUrl(exact_match.val)],
               calls \o <<"search_slug", "fetch_grokipedia_article", "generate_grokipedia_tldr">>)
    ELSE create_fetch(wikipedia_url, calls \o <<"search_slug", "fetch_grokipedia_article">>, env))

\* Lines 233-263
create(data, env) ==
  With(FieldOrEmpty(data.article_url), LAMBDA article_url :
    IF article_url = <<>> THEN Reply(400, Error("Please provide a Wikipedia URL"), <<>>)
    ELSE With(detect_source(article_url), LAMBDA source :
      IF source = "None"
      THEN IF Truthy(env.resolved)
           THEN With(convert_to_other_source(PageUrl(env.resolved.val)), LAMBDA wikipedia_url :
                  create_check(env.resolved, wikipedia_url.val,
                               <<"resolve_local_slug_if_available">>, env))
           ELSE create_check(Str(Replace(article_url, " ", "_")),
                             WikipediaTemplate \o Replace(article_url, " ", "_"),
                             <<"resolve_local_slug_if_available">>, env)
      ELSE With(extract_article_title(article_url), LAMBDA search_slug :
        IF search_slug.tag = "raise" THEN InternalError(<<>>)
        ELSE IF source = "wikipedia" THEN create_check(search_slug, article_url, <<>>, env)
        ELSE With(convert_to_other_source(article_url), LAMBDA wikipedia_url :
               IF wikipedia_url.tag = "None"
               THEN Reply(400, Error("Could not extract Wikipedia title from URL"), <<>>)
               ELSE create_check(search_slug, wikipedia_url.val, <<>>, env)))))

\* A result the handlers take for no result: None or ''.
Falsy(result) == result.tag = "None" \/ (result.tag = "text" /\ result.text = <<>>)

\* Lines 308-317
create_respond(payload, result) ==
  IF Falsy(result) THEN [status |-> 502, payload |-> Error("Failed to generate Grokipedia draft")]
  ELSE [status |-> 200, payload |-> ("grokipedia_draft" :> result) @@ payload]

\* --- biography

\* Lines 327-346: x_username.lstrip('@') gives the topic when there is none.
biography(data) ==
  With(FieldOrEmpty(data.topic), LAMBDA topic :
    With(FieldOrEmpty(data.x_username), LAMBDA x_username :
      IF topic = <<>> /\ x_username = <<>>
      THEN Reply(400, Error("Please provide a name/topic or X username"), <<>>)
      ELSE With(IF topic = <<>> THEN <<"@">> \o LStrip(x_username, {"@"}) ELSE topic,
                LAMBDA name :
             Generate("biography", Article(TRUE, name),
                      [success |-> TRUE, topic |-> name, x_username |-> x_username],
                      <<"generate_biography">>))))

\* Lines 348-356
biography_respond(payload, result) ==
  IF Falsy(result) THEN [status |-> 502, payload |-> Error("Failed to generate biography. Please try again.")]
  ELSE [status |-> 200, payload |-> ("biography" :> result) @@ payload]

\* --- the request as a state machine

AIdle ==
  /\ a_pc = "off" /\ a_route = "none" /\ a_data = <<>> /\ a_env = <<>>
  /\ a_calls = <<>> /\ a_resp = [status |-> 0, payload |-> <<>>]

AInit ==
  /\ a_pc = "idle"
  /\ a_route \in {"compare", "edits", "create", "biography"}
  /\ a_data \in (IF a_route = "biography" THEN [topic : Topics, x_username : Handles]
                 ELSE [article_url : ArticleUrls])
  /\ a_env = <<>> /\ a_calls = <<>> /\ a_resp = [status |-> 0, payload |-> <<>>]

\* The collaborators' results the handler has seen.
Seen(calls, env) ==
  [resolved |-> IF "resolve_local_slug_if_available" \in Range(calls) THEN env.resolved ELSE Pending,
   grok |-> IF "fetch_grokipedia_article" \in Range(calls) THEN env.grok ELSE Pending,
   wiki |-> IF "scrape_wikipedia" \in Range(calls) THEN env.wiki ELSE Pending,
   index |-> IF "search_slug" \in Range(calls) THEN env.index ELSE Pending]

\* The handler runs to its response or to its main generation call, which
\* reads the provider keys from the environment.
Handle(out, env) ==
  /\ a_pc' = out.pc
  /\ a_env' = Seen(out.calls, env)
  /\ a_calls' = out.calls
  /\ a_resp' = [status |-> out.status, payload |-> out.payload]
  /\ IF out.pc = "generate"
     THEN /\ g_pc' = "idle" /\ g_kind' = out.gen.kind
          /\ g_xai' \in BOOLEAN /\ g_or' \in BOOLEAN
          /\ g_body' = out.gen.body /\ g_title' = out.gen.title
          /\ UNCHANGED <<g_calls, g_resps, g_result>>
     ELSE UNCHANGED g_vars
  /\ UNCHANGED <<a_route, a_data, u_vars, s_vars, r_vars, v_vars, c_vars, f_vars, b_vars>>

\* POST /compare
Compare ==
  /\ a_pc = "idle" /\ a_route = "compare"
  /\ \E env \in Envs : Handle(compare(a_data, env), env)

\* POST /edits
Edits ==
  /\ a_pc = "idle" /\ a_route = "edits"
  /\ \E env \in Envs : Handle(edits(a_data, env), env)

\* POST /create
Create ==
  /\ a_pc = "idle" /\ a_route = "create"
  /\ \E env \in Envs : Handle(create(a_data, env), env)

\* POST /biography
Biography ==
  /\ a_pc = "idle" /\ a_route = "biography"
  /\ \E env \in Envs : Handle(biography(a_data), env)

\* The generation call has returned or raised; the handler builds its
\* response.  compare then asks for the TLDR and the Wikipedia summary.
Respond ==
  /\ a_pc = "generate" /\ g_pc = "done"
  /\ \E tldr \in BOOLEAN, summary \in BOOLEAN :
       a_resp' = CASE a_route = "compare" -> compare_respond(a_resp.payload, g_result, tldr, summary)
                   [] a_route = "edits" -> edits_respond(a_resp.payload, g_result)
                   [] a_route = "create" -> create_respond(a_resp.payload, g_result)
                   [] a_route = "biography" -> biography_respond(a_resp.payload, g_result)
  /\ a_calls' = IF a_route = "compare"
                THEN a_calls \o <<"generate_grokipedia_tldr", "generate_wikipedia_summary">>
                ELSE a_calls
  /\ a_pc' = "done"
  /\ UNCHANGED <<a_route, a_data, a_env, g_vars, u_vars, s_vars, r_vars, v_vars, c_vars, f_vars, b_vars>>

----------------------------------------------------------------------------
(* app/services: the article body a generation function puts into its      *)
(* prompt, computed from the record's full_text, its summary (Grokipedia)   *)
(* or intro (Wikipedia), and its sections.                                 *)

\* A list value of a record field.
List(items) == [tag |-> "list", val |-> items]

Newline == <<"^J">>

\* sep.join(parts)
RECURSIVE Join(_, _)
Join(parts, sep) ==
  IF parts = <<>> THEN <<>>
  ELSE IF Len(parts) = 1 THEN parts[1]
  ELSE parts[1] \o sep \o Join(Tail(parts), sep)

\* record.get(field) or '' for a text field, or [] for the sections
OrEmpty(value) == IF value.tag \in {"str", "list"} THEN value.val ELSE <<>>

\* The records: full_text, the summary or intro (lead) and the sections may
\* each be missing, null, empty or filled in.
BodyRecords ==
  [full_text : {Absent, None, Str(<<>>), Str(<<" ">>), Str(<<"b">>), Str(<<" ", "b", "^J">>)},
   lead : {None, Str(<<>>), Str(<<"s">>), Str(<<"s", " ">>)},
   sections : {None, List(<<>>), List(<<<<"x">>>>), List(<<<<"x">>, <<"y", " ">>>>)}]

\* The functions that build a body from a record.
BodyFunctions ==
  {"generate_edit_suggestions", "generate_grokipedia_tldr", "generate_wikipedia_summary",
   "generate_grokipedia_article", "compare_articles"}

\* The same taking the summary and sections first and the full text last.
build_article_body_summary_first(record) ==
  With(SelectSeq(<<StripWs(OrEmpty(record.lead)),
                   StripWs(Join(OrEmpty(record.sections), Newline \o Newline))>>,
                 LAMBDA part : part # <<>>), LAMBDA parts :
    IF parts # <<>> THEN Join(parts, Newline \o Newline)
    ELSE StripWs(OrEmpty(record.full_text)))

\* edits_service._build_article_body for a non-empty record
build_article_body(record) ==
  IF Truthy(record.full_text) THEN StripWs(record.full_text.val)
  ELSE Join(SelectSeq(<<StripWs(OrEmpty(record.lead)),
                        StripWs(Join(OrEmpty(record.sections), Newline \o Newline))>>,
                      LAMBDA part : part # <<>>),
            Newline \o Newline)

\* comparison_service: full_text or (summary or '') + '\n\n' + '\n'.join(sections or [])
prompt_body(record) ==
  IF Truthy(record.full_text) THEN record.full_text.val
  ELSE OrEmpty(record.lead) \o Newline \o Newline \o Join(OrEmpty(record.sections), Newline)

BIdle == b_pc = "off" /\ b_fn = "none" /\ b_record = None /\ b_body = <<>>

BInit ==
  /\ b_pc = "idle" /\ b_fn \in BodyFunctions /\ b_record \in BodyRecords /\ b_body = <<>>

\* The function computes the body of its prompt.
BuildBody ==
  /\ b_pc = "idle"
  /\ b_body' = IF b_fn = "generate_edit_suggestions" THEN build_article_body(b_record)
               ELSE prompt_body(b_record)
  /\ b_pc' = "done"
  /\ UNCHANGED <<b_fn, b_record, u_vars, s_vars, g_vars, r_vars, v_vars, c_vars, a_vars, f_vars>>

----------------------------------------------------------------------------
(* Specifications: one per part of the program; the other parts stay off.  *)

\* The parts listed below are off.
NIdle(parts) ==
  /\ "v" \in parts => VIdle
  /\ "c" \in parts => CIdle
  /\ "a" \in parts => AIdle
  /\ "f" \in parts => FIdle
  /\ "b" \in parts => BIdle

Init == UIdle /\ SIdle /\ GInit /\ RIdle /\ NIdle({"v", "c", "a", "f", "b"})

Next == StartRequest \/ XaiResponds \/ OpenRouterResponds

Spec == Init /\ [][Next]_vars

InitUrl == UInit /\ SIdle /\ GIdle /\ RIdle /\ NIdle({"v", "c", "a", "f", "b"})

NextUrl == DetectSource \/ ExtractArticleTitle \/ ConvertToOtherSource \/ FeedBack

SpecUrl == InitUrl /\ [][NextUrl]_vars

InitSearch == UIdle /\ SInit /\ GIdle /\ RIdle /\ NIdle({"v", "c", "a", "f", "b"})

NextSearch == SearchArticles

SpecSearch == InitSearch /\ [][NextSearch]_vars

InitRank == UIdle /\ SIdle /\ GIdle /\ RInit /\ NIdle({"v", "c", "a", "f", "b"})

NextRank == RankCandidates

SpecRank == InitRank /\ [][NextRank]_vars

InitResolve == UIdle /\ SIdle /\ GIdle /\ RIdle /\ VInit /\ NIdle({"c", "a", "f", "b"})

NextResolve == ResolveEnter \/ GetSdkClient \/ FindSlug \/ CloseClient

SpecResolve == InitResolve /\ [][NextResolve]_vars

InitClient == UIdle /\ SIdle /\ GIdle /\ RIdle /\ CInit /\ NIdle({"v", "a", "f", "b"})

NextClient == CheckCached \/ ConstructClient \/ StoreClient \/ ReturnCached

SpecClient == InitClient /\ [][NextClient]_vars

InitFetch == UIdle /\ SIdle /\ GIdle /\ RIdle /\ FInit /\ NIdle({"v", "c", "a", "b"})

NextFetch == ScrapeWikipedia \/ FetchGrokipediaArticle

SpecFetch == InitFetch /\ [][NextFetch]_vars

InitApi == UIdle /\ SIdle /\ GIdle /\ RIdle /\ AInit /\ NIdle({"v", "c", "f", "b"})

NextApi ==
  \/ Compare \/ Edits \/ Create \/ Biography \/ Respond
  \/ StartRequest \/ XaiResponds \/ OpenRouterResponds

SpecApi == InitApi /\ [][NextApi]_vars

InitBody == UIdle /\ SIdle /\ GIdle /\ RIdle /\ BInit /\ NIdle({"v", "c", "a", "f"})

NextBody == BuildBody

SpecBody == InitBody /\ [][NextBody]_vars

\* One operation that calls out: a request to one of the four routes, or one
\* call of a fetcher.
InitOutbound == InitApi \/ InitFetch

NextOutbound ==
  \/ Compare \/ Edits \/ Create \/ Biography \/ Respond
  \/ StartRequest \/ XaiResponds \/ OpenRouterResponds
  \/ ScrapeWikipedia \/ FetchGrokipediaArticle

SpecOutbound == InitOutbound /\ [][NextOutbound]_vars

----------------------------------------------------------------------------
(* Properties of the generation requests (checked under Spec).             *)

\* Both providers are configured and the primary (xAI) answered the
\* request's first call with the given HTTP status.
PrimaryAnswered(status) ==
  /\ g_xai /\ g_or
  /\ g_resps # <<>> /\ g_calls[1] = "xai"
  /\ ~g_resps[1].exc /\ g_resps[1].status = status

\* C1: with both providers configured, a primary 429 ends the request as
\* RateLimited and the fallback provider is never contacted.
C1_RateLimitedWithoutFallback ==
  PrimaryAnswered(429) =>
    /\ "openrouter" \notin Range(g_calls)
    /\ g_pc = "done" => g_result.tag = "RateLimited"

\* The fallback's second call came back 200 with non-blank text.
FallbackSucceeded ==
  /\ Len(g_resps) = 2 /\ g_calls = <<"xai", "openrouter">>
  /\ ~ChatFailed(g_resps[2]) /\ StripWs(g_resps[2].text) # <<>>

\* C2: with both providers configured, a primary 500 is followed by exactly
\* one fallback attempt, and when that attempt succeeds with non-empty text
\* the request returns the fallback's text and no error.
C2_ServerErrorFallsBack ==
  (PrimaryAnswered(500) /\ g_pc = "done") =>
    /\ g_calls = <<"xai", "openrouter">>
    /\ FallbackSucceeded =>
         g_result.tag = "text" /\ EndsWith(g_result.text, StripWs(g_resps[2].text))

\* C2 for the kinds other than biography: the same statement holds there.
C2_ExceptBiography == g_kind # "biography" => C2_ServerErrorFallsBack

----------------------------------------------------------------------------
(* Properties of the URL functions (checked under SpecUrl).                *)

\* The host is a recognized source domain or a subdomain of one.
RecognizedHost(host) ==
  \E d \in {grokipedia_com, wikipedia_org} :
    Lower(host) = d \/ EndsWith(Lower(host), <<".">> \o d)

\* C3: detect_source returns None for every URL whose host is not a
\* recognized source domain or a subdomain of one, such as notgrokipedia.com.
C3_UnrecognizedHostIsNone ==
  (sources # <<>> /\ ~RecognizedHost(head0.host)) => sources[1] = "None"

OtherSource(source) == IF source = "grokipedia" THEN "wikipedia" ELSE "grokipedia"

\* The i-th URL handled is of a source and has a non-empty slug.
HasSlug(i) ==
  /\ i <= Len(titles) /\ sources[i] # "None"
  /\ titles[i].tag = "str" /\ titles[i].val # <<>>

\* C4: round-trip stability.  Whenever a URL of either source has a
\* non-empty slug s, convert_to_other_source returns a URL, that URL is of
\* the other source and its slug is s; the same holds again for the URL
\* converted back.
C4_RoundTrip ==
  \A i \in 1..Len(titles) :
    HasSlug(i) =>
      /\ Len(others) >= i => others[i].tag = "str"
      /\ Len(sources) > i => sources[i + 1] = OtherSource(sources[i])
      /\ Len(titles) > i => titles[i + 1] = titles[i]

\* A slug that needs percent-encoding went there and back.
C4_Witness ==
  /\ Len(titles) = 3 /\ HasSlug(1)
  /\ Contains(titles[1].val, <<"%">>)
  /\ Contains(titles[1].val, <<"/">>)
  /\ titles[3] = titles[1] /\ sources[3] = sources[1]

\* The request was a full-document generation that returned text.
FullDocumentReturned ==
  g_kind \in {"rewrite", "biography"} /\ g_pc = "done" /\ g_result.tag = "text"

\* The text the provider generated for the request.
Generated == Last(g_resps).text

\* C5 as stated: generated text that does not begin with '#' gets "# t" and
\* a blank line prepended, and generated text that begins with '#' is
\* returned unmodified.
C5_TitleCoercionAsStated ==
  FullDocumentReturned =>
    g_result.text = IF StartsWith(Generated, <<"#">>) THEN Generated
                    ELSE WithHeading(g_title, Generated)

\* C5, amended: the test and the result ignore surrounding whitespace.  Text
\* that begins with '#' after leading whitespace is returned trimmed, with
\* no heading added; other text gets "# t" and a blank line prepended once
\* when t is non-empty (the result trimmed), and is returned trimmed when t
\* is empty.
C5_TitleCoercion ==
  FullDocumentReturned =>
    IF StartsWith(StripWs(Generated), <<"#">>) \/ g_title = <<>>
    THEN g_result.text = StripWs(Generated)
    ELSE g_result.text \in {StripWs(WithHeading(g_title, Generated)),
                            WithHeading(g_title, StripWs(Generated))}

\* Both branches happened: a heading was added, and text with a heading
\* after leading whitespace came back without a second one.
C5_Witness ==
  /\ FullDocumentReturned /\ g_title # <<>>
  /\ Generated = <<" ", "#">> /\ g_result.text = <<"#">>

C5_WitnessHeadingAdded ==
  /\ FullDocumentReturned /\ g_title = <<"T">>
  /\ Generated = <<"b">> /\ g_result.text = <<"#", " ", "T", "^J", "^J", "b">>

\* The first URL is http(s)://<host>/wiki/<tail> on a Wikipedia host.
IsWikiUrl == head0.form = "wiki" /\ RecognizedHost(head0.host)

\* The first URL is http(s)://<host>/page/<tail> on a Grokipedia host.
IsPageUrl == head0.form = "page" /\ RecognizedHost(head0.host)

\* A slug that needs no encoding and no normalization.
PlainSlug(s) == s # <<>> /\ \A i \in 1..Len(s) : AlwaysSafe(s[i])

RECURSIVE EncodedLen(_)
EncodedLen(s) ==
  IF s = <<>> THEN 0
  ELSE (IF AlwaysSafe(Head(s)) THEN 1 ELSE 3 * Len(Utf8Encode(Ord(Head(s)))))
       + EncodedLen(Tail(s))

\* e is s percent-encoded: only unreserved characters and escapes, every
\* character outside the unreserved set escaped, decoding back to s.
IsPercentEncodingOf(e, s) ==
  /\ \A i \in 1..Len(e) : AlwaysSafe(e[i]) \/ e[i] = "%"
  /\ Len(e) = EncodedLen(s)
  /\ unquote(e) = s

PagePrefix ==
  <<"h", "t", "t", "p", "s", ":", "/", "/", "g", "r", "o", "k", "i", "p", "e", "d", "i", "a",
    ".", "c", "o", "m", "/", "p", "a", "g", "e", "/">>

WikiPrefix ==
  <<"h", "t", "t", "p", "s", ":", "/", "/", "e", "n", ".", "w", "i", "k", "i", "p", "e", "d",
    "i", "a", ".", "o", "r", "g", "/", "w", "i", "k", "i", "/">>

\* C6: a Wikipedia /wiki/<slug> URL is detected as wikipedia, its title is
\* <slug>, and it converts to https://grokipedia.com/page/<slug
\* percent-encoded>; a Grokipedia /page/<slug> URL symmetrically converts to
\* https://en.wikipedia.org/wiki/<slug percent-encoded>; the Comcast URL
\* maps to https://grokipedia.com/page/Comcast.
C6_ConvertsBetweenSources ==
  (IsWikiUrl \/ IsPageUrl) =>
    /\ sources # <<>> => sources[1] = (IF IsWikiUrl THEN "wikipedia" ELSE "grokipedia")
    /\ (titles # <<>> /\ PlainSlug(tail0)) => titles[1] = Str(tail0)
    /\ (others # <<>> /\ HasSlug(1)) =>
         /\ others[1].tag = "str"
         /\ StartsWith(others[1].val, IF IsWikiUrl THEN PagePrefix ELSE WikiPrefix)
         /\ IsPercentEncodingOf(
              From(others[1].val, Len(IF IsWikiUrl THEN PagePrefix ELSE WikiPrefix)),
              titles[1].val)
    /\ (others # <<>> /\ urls[1] = WikiPrefix \o Comcast) =>
         others[1] = Str(PagePrefix \o Comcast)

\* The Comcast example was converted.
C6_Witness ==
  /\ urls # <<>> /\ urls[1] = WikiPrefix \o Comcast
  /\ others # <<>> /\ others[1] = Str(PagePrefix \o Comcast)

\* A slug with characters to encode was converted from a Grokipedia URL.
C6_WitnessEncoded ==
  /\ IsPageUrl /\ others # <<>> /\ HasSlug(1)
  /\ Contains(titles[1].val, <<"/">>) /\ Contains(others[1].val, <<"%", "2", "F">>)

\* C7: the three functions never raise; a malformed or unparseable URL
\* yields None, and a URL of a recognized host that matches no slug pattern
\* yields None from extract_article_title and convert_to_other_source.
C7_NeverRaises ==
  /\ \A i \in 1..Len(titles) : titles[i].tag # "raise"
  /\ \A i \in 1..Len(others) : others[i].tag # "raise"
  /\ (urls # <<>> /\ urlparse(urls[1]).raised) =>
       /\ sources # <<>> => sources[1] = "None"
       /\ titles # <<>> => titles[1] = None
       /\ others # <<>> => others[1] = None
  /\ (RecognizedHost(head0.host) /\ head0.form = "none") =>
       /\ titles # <<>> => titles[1] = None
       /\ others # <<>> => others[1] = None

----------------------------------------------------------------------------
(* Properties of the search handler (checked under SpecSearch).            *)

ResultSlugs == [i \in 1..Len(s_resp.results) |-> s_resp.results[i].slug]

\* Position of a slug in a duplicate-free list.
IndexIn(seq, x) == CHOOSE i \in 1..Len(seq) : seq[i] = x

Min(a, b) == IF a < b THEN a ELSE b

\* The request ran the exact search and then the fuzzy search.
Merged == s_pc = "done" /\ s_calls = <<"search_exact", "search_fuzzy">>

\* C8: when the exact search returns fewer slugs than the limit, fuzzy
\* results are appended only for slugs not already present; every exact
\* slug precedes every fuzzy-only slug, both in their original relative
\* order, and no slug occurs twice.
C8_SearchMerge ==
  /\ (s_pc = "done" /\ s_calls # <<>> /\ s_calls[1] = "search_exact" /\ s_resp.status = 200)
       => (Merged <=> Len(s_exact) < s_limit)
  /\ Merged =>
       /\ SubSeq(ResultSlugs, 1, Len(s_exact)) = s_exact
       /\ \A i \in (Len(s_exact) + 1)..Len(ResultSlugs) :
            ResultSlugs[i] \in Range(s_fuzzy) \ Range(s_exact)
       /\ \A i, j \in (Len(s_exact) + 1)..Len(ResultSlugs) :
            i < j => IndexIn(s_fuzzy, ResultSlugs[i]) < IndexIn(s_fuzzy, ResultSlugs[j])
       /\ \A i, j \in 1..Len(ResultSlugs) : i # j => ResultSlugs[i] # ResultSlugs[j]
       /\ Len(ResultSlugs) = Min(s_limit, Cardinality(Range(s_exact) \cup Range(s_fuzzy)))

\* A fuzzy list that repeats an exact slug ahead of a new one was merged.
C8_Witness ==
  /\ Merged /\ Len(s_exact) = 1 /\ Len(s_fuzzy) = 3
  /\ s_fuzzy[1] # s_exact[1] /\ s_fuzzy[2] = s_exact[1]
  /\ ResultSlugs = <<s_exact[1], s_fuzzy[1], s_fuzzy[3]>>

----------------------------------------------------------------------------
(* Properties of the relevance ranker (checked under SpecRank).            *)

RankedSlugs == [i \in 1..Len(r_ranked) |-> r_ranked[i].slug]

\* Some query word is a substring of some word of the slug.
SomeWordMatches(query, slug) ==
  \E qw \in Range(Words(query)), w \in Range(Words(NormalizedSlug(slug))) : Contains(w, qw)

\* The base score the tiers give a candidate, stated directly: the first
\* of exact, prefix, whole word, word substring, substring anywhere; the
\* fallback is 100 or 150 for each query word found in a slug word.
HasTierScore(query, slug, base) ==
  LET name == NormalizedSlug(slug)
      ws == Range(Words(name))
  IN IF name = query THEN base = 10000
     ELSE IF StartsWith(name, query) THEN base = 5000
     ELSE IF query \in ws THEN base = 3000
     ELSE IF \E w \in ws : Contains(w, query) THEN base = 1000
     ELSE IF Contains(name, query) THEN base = 500
     ELSE /\ base > 0
          /\ \E bonus \in 0..Len(Words(query)) :
               base = 100 * Cardinality({k \in 1..Len(Words(query)) :
                              \E w \in ws : Contains(w, Words(query)[k])}) + 50 * bonus

\* C9: a candidate is scored by the first matching tier in the order exact
\* (10000), prefix (5000), whole word (3000), substring of a word (1000),
\* substring anywhere (500), per-word fallback (100 each, +50 for a
\* word-start match); a candidate whose fallback contribution is 0 is
\* excluded; for [Tesla_Inc, Tesla_Motors_Club, Elon_Musk] and query tesla
\* the result is Tesla_Inc before Tesla_Motors_Club, without Elon_Musk.
C9_RankerTiers ==
  r_pc = "done" =>
    /\ \A i \in 1..Len(r_ranked) :
         /\ r_ranked[i].slug \in Range(r_candidates)
         /\ HasTierScore(r_query, r_ranked[i].slug,
                         r_ranked[i].score + LengthPenalty(r_ranked[i].slug)
                           - PositionBonus(r_query, r_ranked[i].slug))
    /\ \A c \in Range(r_candidates) :
         (~SomeWordMatches(r_query, c) /\ ~Contains(NormalizedSlug(c), r_query))
           => c \notin Range(RankedSlugs)
    /\ \A c \in Range(r_candidates) :
         (SomeWordMatches(r_query, c) /\ c \notin Range(RankedSlugs))
           => Len(r_ranked) = r_limit
    /\ (r_query = q_tesla /\ r_candidates = <<Tesla_Inc, Tesla_Motors_Club, Elon_Musk>>
          /\ r_limit >= 2)
         => RankedSlugs = <<Tesla_Inc, Tesla_Motors_Club>>

\* The Tesla example was ranked.
C9_Witness ==
  /\ r_pc = "done" /\ r_query = q_tesla /\ r_limit = 3
  /\ r_candidates = <<Tesla_Inc, Tesla_Motors_Club, Elon_Musk>>
  /\ RankedSlugs = <<Tesla_Inc, Tesla_Motors_Club>>

\* The candidate equals the query after lower-casing and replacing
\* underscores with spaces.
IsExact(slug) == NormalizedSlug(slug) = r_query

\* C10: for every candidate list and every position in it, a candidate
\* whose normalized slug equals the query is ranked first: its final score
\* (tier score minus length penalty plus position bonus) is strictly greater
\* than that of every non-exact candidate.
C10_ExactRanksFirst ==
  (r_pc = "done" /\ \E c \in Range(r_candidates) : IsExact(c)) =>
    /\ r_ranked # <<>> /\ IsExact(r_ranked[1].slug)
    /\ \A i, j \in 1..Len(r_ranked) :
         (IsExact(r_ranked[i].slug) /\ ~IsExact(r_ranked[j].slug))
           => (i < j /\ r_ranked[i].score > r_ranked[j].score)
    /\ \A e, n \in Range(r_candidates) :
         (IsExact(e) /\ ~IsExact(n)) => FinalScore(r_query, e) > FinalScore(r_query, n)

\* The exact candidate came last in the list and was ranked first, ahead of
\* a prefix match.
C10_Witness ==
  /\ r_pc = "done" /\ r_query = q_tesla /\ r_limit >= 2
  /\ r_candidates = <<Elon_Musk, Tesla_Inc, Tesla>>
  /\ RankedSlugs = <<Tesla, Tesla_Inc>>

----------------------------------------------------------------------------
(* Ordering of the search results (checked under SpecSearch).              *)

\* The query the handler searched the index for.
SearchedQuery == SearchQuery(s_query).query

\* The merged exact+fuzzy candidate list: the exact slugs, then the slugs
\* only the fuzzy search returned.
MergedCandidates == MergeFuzzy(s_exact, s_fuzzy, Len(s_exact) + Len(s_fuzzy))

SlugsOf(ranked) == [i \in 1..Len(ranked) |-> ranked[i].slug]

\* The list is as the ranker leaves it: descending score, no candidate of
\* score zero.
RankerOrdered(slugs) == SlugsOf(Rank(SearchedQuery, slugs, Len(slugs))) = slugs

\* C11: the list returned by the search operation is the ranker applied to
\* the merged exact+fuzzy candidate list: descending ranker score, equal
\* scores in input order, truncated to the limit.  Stated for the requests
\* in which each of the two searches returned its slugs in ranker order.
C11_SearchIsRanked ==
  (Merged /\ s_resp.status = 200 /\ RankerOrdered(s_exact) /\ RankerOrdered(s_fuzzy)) =>
    ResultSlugs = SlugsOf(Rank(SearchedQuery, MergedCandidates, s_limit))

----------------------------------------------------------------------------
(* Properties of the slug resolver (checked under SpecResolve).            *)

\* get_sdk_client() returned a client.
Acquired == Call("get_sdk_client", TRUE) \in Range(v_calls)

\* How many times close() was called.
Closes == Cardinality({i \in 1..Len(v_calls) : v_calls[i].call = "close"})

\* Creating the client, the lookup or the close raised.
SomeCallFailed == \E i \in 1..Len(v_calls) : ~v_calls[i].ok

\* C12: resolve_local_slug_if_available never raises; a failure while
\* creating the client, looking up the slug or closing the client yields
\* None; a client that was acquired is closed exactly once before the
\* function returns, on the success path and on every failure path, and no
\* close happens without a client.
C12_ResolverNeverRaises ==
  /\ v_result.tag # "raise"
  /\ Closes <= 1 /\ (Closes = 1 => Acquired)
  /\ v_pc = "done" =>
       /\ v_result.tag \in {"None", "str"}
       /\ SomeCallFailed => v_result = None
       /\ (Acquired /\ ~SomeCallFailed) => v_result = v_found
       /\ Acquired => Closes = 1

\* find_slug raised on an acquired client, which was then closed.
C12_Witness ==
  /\ v_pc = "done" /\ v_result = None
  /\ v_calls = <<Call("get_sdk_client", TRUE), Call("find_slug", FALSE), Call("close", TRUE)>>

----------------------------------------------------------------------------
(* Properties of the cached client (checked under SpecClient).             *)

\* The instances the calls have returned so far.
Returned == UNION {Range(c_got[t]) : t \in Threads} \ {0}

\* C13: under any interleaving of concurrent get_cached_client calls the
\* client is constructed at most once and every caller receives that same
\* instance.
C13_ConstructedOnce == c_built <= 1 /\ Cardinality(Returned) <= 1

----------------------------------------------------------------------------
(* Properties of the route handlers (checked under SpecApi).               *)

\* The field is missing (no key, or null) or blank.
MissingOrBlank(field) == field.tag # "str" \/ StripWs(field.val) = <<>>

GenerationCalls ==
  {"generate_grokipedia_tldr", "generate_wikipedia_summary", "compare_articles",
   "generate_edit_suggestions", "generate_grokipedia_article", "generate_biography"}

FetchCalls == {"fetch_grokipedia_article", "scrape_wikipedia"}

\* The handler answered 400 with an error payload and called neither a
\* fetcher nor a generator.
Rejected ==
  /\ a_pc = "done" /\ a_resp.status = 400 /\ DOMAIN a_resp.payload = {"error"}
  /\ Range(a_calls) \cap (FetchCalls \cup GenerationCalls) = {}
  /\ g_pc = "off" /\ g_calls = <<>>

\* The text is no URL of a recognized source and the resolver found nothing.
Unresolvable ==
  /\ a_data.article_url.tag = "str"
  /\ detect_source(StripWs(a_data.article_url.val)) = "None"
  /\ a_env.resolved = None

\* C14: invalid input is rejected with status 400 before any outbound call:
\* compare, suggest_edits and generate_draft with a missing or blank
\* article_url, generate_biography with neither topic nor handle, and
\* compare / suggest_edits with text that is neither a recognized-source URL
\* nor resolvable return 400 with an error payload, and no fetch or
\* generation request is issued.
C14_InvalidInputRejected ==
  a_pc \in {"generate", "done"} =>
    /\ (a_route \in {"compare", "edits", "create"} /\ MissingOrBlank(a_data.article_url))
         => Rejected
    /\ (a_route = "biography" /\ MissingOrBlank(a_data.topic)
          /\ MissingOrBlank(a_data.x_username)) => Rejected
    /\ (a_route \in {"compare", "edits"} /\ ~MissingOrBlank(a_data.article_url)
          /\ Unresolvable) => Rejected

\* The edit-suggestion request of the handler ended on a 429 response.
EndedOn429 ==
  /\ a_route = "edits" /\ g_pc = "done"
  /\ g_resps # <<>> /\ ~Last(g_resps).exc /\ Last(g_resps).status = 429

\* The integer a Retry-After value stands for, {} when it is absent or no
\* integer.
HintOf(header) ==
  CASE header = Str(<<"0">>) -> {0}
    [] header = Str(<<"1", "2">>) -> {12}
    [] header = Str(<<"-", "3">>) -> {0 - 3}
    [] OTHER -> {}

\* C15: when an edit-suggestion request ends on an HTTP 429 provider
\* response the result is RateLimited, with the integer value of the
\* Retry-After header as its retry hint when the header is present and
\* parses as an integer, and without a hint otherwise; suggest_edits then
\* returns 429 and its payload has retry_after_seconds exactly when the hint
\* is present.
C15_RateLimitHint ==
  EndedOn429 =>
    /\ g_result = RateLimited(HintOf(Last(g_resps).retry))
    /\ a_pc = "done" =>
         /\ a_resp.status = 429
         /\ "retry_after_seconds" \in DOMAIN a_resp.payload <=> g_result.retry # {}
         /\ g_result.retry # {} => a_resp.payload.retry_after_seconds = g_result.retry

\* A Retry-After of 0 was passed on as a hint of 0 seconds.
C15_Witness ==
  /\ EndedOn429 /\ a_pc = "done" /\ Last(g_resps).retry = Str(<<"0">>)
  /\ a_resp.status = 429 /\ DOMAIN a_resp.payload = {"error", "retry_after_seconds"}
  /\ a_resp.payload.retry_after_seconds = {0}

\* The generation request of the handler ended on a well-formed response
\* that carries no text.
EndedEmpty ==
  /\ a_route \in {"edits", "create", "biography"} /\ a_pc = "done" /\ g_pc = "done"
  /\ g_resps # <<>>
  /\ ~Last(g_resps).exc /\ Last(g_resps).status = 200
  /\ Last(g_resps).json = "ok" /\ Last(g_resps).text = <<>>

\* C16: a well-formed provider response with no text (Empty) is surfaced
\* with status 502 by suggest_edits, generate_draft and generate_biography,
\* apart from a provider error.
C16_EmptyIs502 == EndedEmpty => a_resp.status = 502

\* Both fetches of a compare request returned, and at least one returned
\* None.
ComparedPartially ==
  /\ a_route = "compare" /\ a_pc = "done"
  /\ a_env.grok.tag \in {"None", "record"} /\ a_env.wiki.tag \in {"None", "record"}
  /\ a_env.grok = None \/ a_env.wiki = None

\* C17: when at least one of the two articles cannot be fetched, compare
\* returns a success response with whichever article was fetched, a null
\* comparison and a comparison_error naming exactly the side(s) that failed;
\* comparison_error is present only when a side is missing.
C17_PartialComparison ==
  /\ ComparedPartially =>
       /\ a_resp.status = 200
       /\ a_resp.payload.grokipedia.record = a_env.grok
       /\ a_resp.payload.wikipedia.record = a_env.wiki
       /\ a_resp.payload.comparison = Outcome("None")
       /\ a_resp.payload.comparison_error =
            IF a_env.wiki # None THEN "Grokipedia article not found"
            ELSE IF a_env.grok # None THEN "Wikipedia article not found"
            ELSE "Grokipedia article not found and Wikipedia article not found"
       /\ "compare_articles" \notin Range(a_calls) /\ g_pc = "off"
  /\ (a_route = "compare" /\ a_pc = "done" /\ "comparison_error" \in DOMAIN a_resp.payload)
       => ComparedPartially

\* Only the Wikipedia article was fetched.
C17_Witness ==
  /\ ComparedPartially /\ a_env.grok = None /\ a_env.wiki.tag = "record"
  /\ a_resp.status = 200 /\ a_resp.payload.comparison_error = "Grokipedia article not found"

\* C18: when suggest_edits cannot fetch the Grokipedia article, or
\* generate_draft cannot fetch the Wikipedia article, the response has
\* status 404 and no generation request is issued afterwards.
C18_NotFoundIs404 ==
  /\ (a_route = "edits" /\ a_pc \in {"generate", "done"} /\ a_env.grok = None) =>
       /\ a_pc = "done" /\ a_resp.status = 404
       /\ Last(a_calls) = "fetch_grokipedia_article"
       /\ Range(a_calls) \cap GenerationCalls = {} /\ g_pc = "off"
  /\ (a_route = "create" /\ a_pc \in {"generate", "done"} /\ a_env.wiki = None) =>
       /\ a_pc = "done" /\ a_resp.status = 404
       /\ Last(a_calls) = "scrape_wikipedia"
       /\ Range(a_calls) \cap GenerationCalls = {} /\ g_pc = "off"

\* suggest_edits resolved free text to a slug and the fetch found nothing.
C18_Witness ==
  /\ a_route = "edits" /\ a_pc = "done" /\ a_resp.status = 404
  /\ a_calls = <<"resolve_local_slug_if_available", "fetch_grokipedia_article">>

----------------------------------------------------------------------------
(* Properties of the article fetchers (checked under SpecFetch).           *)

\* The headings of the upstream list that the acquirer does not leave out:
\* scrape_wikipedia leaves out entries without a heading and the four
\* excluded headings, fetch_grokipedia_article leaves out nothing.
UpstreamHeadings ==
  LET kept == IF f_kind = "grokipedia" THEN f_env
              ELSE SelectSeq(f_env, LAMBDA e : /\ e.tag = "str" /\ e.val # <<>>
                                             /\ Lower(e.val) \notin ExcludedHeadings)
  IN [i \in 1..Len(kept) |-> kept[i].val]

IsPrefix(a, b) == Len(a) <= Len(b) /\ a = SubSeq(b, 1, Len(a))

\* C19: every record returned by scrape_wikipedia or
\* fetch_grokipedia_article has at most 5 sections, and they are a prefix
\* of the upstream section list after the acquirer's filtering, however many
\* sections the upstream source reports.
C19_SectionsBounded ==
  (f_pc = "done" /\ f_record.tag = "record") =>
    /\ Len(f_record.val) <= 5
    /\ IsPrefix(f_record.val, UpstreamHeadings)

\* Wikipedia reported more than five headings besides the ones left out.
C19_Witness ==
  /\ f_pc = "done" /\ f_kind = "wikipedia" /\ f_record.tag = "record"
  /\ Len(f_record.val) = 5 /\ Len(UpstreamHeadings) > 5 /\ Len(f_env) > Len(UpstreamHeadings)
  /\ \A i \in 1..Len(f_env) : f_env[i] # Raised

\* The positions in the call log of the calls of the given name.
CallsOf(name) == {i \in 1..Len(f_calls) : f_calls[i].call = name}

\* The first get_article of the fetch, when there is one.
FirstGet == f_calls[CHOOSE i \in CallsOf("get_article") : \A j \in CallsOf("get_article") : i <= j]

\* C20: in the slug-based fetch (Firecrawl gave no markdown) a not-found on
\* the first get_article triggers exactly one find_slug and at most one
\* further get_article, made with the resolved slug and only when that slug
\* differs from the original; the fetch never loops; and not-found,
\* transport errors and any other exception yield None rather than an
\* exception.
C20_OneReResolution ==
  (f_pc = "done" /\ f_kind = "grokipedia" /\ f_calls[1].out \in {"None", "empty"}) =>
    /\ f_record.tag \in {"None", "record"}
    /\ Cardinality(CallsOf("get_article")) <= 2
    /\ Cardinality(CallsOf("find_slug")) <= 1
    /\ CallsOf("get_article") = {} => (CallsOf("find_slug") = {} /\ f_record = None)
    /\ CallsOf("get_article") # {} =>
         /\ Cardinality(CallsOf("find_slug")) =
              IF FirstGet.out = "ArticleNotFound" THEN 1 ELSE 0
         /\ Cardinality(CallsOf("close")) = 1 /\ Last(f_calls).call = "close"
         /\ \A i \in CallsOf("find_slug") :
              /\ f_calls[i - 1] = FirstGet /\ f_calls[i].arg = FirstGet.arg
              /\ Cardinality(CallsOf("get_article")) = 2
                   <=> (f_calls[i].out = "str" /\ f_calls[i].val # <<>>
                          /\ f_calls[i].val # FirstGet.arg)
              /\ Cardinality(CallsOf("get_article")) = 2
                   => (f_calls[i + 1].call = "get_article"
                         /\ f_calls[i + 1].arg = f_calls[i].val)
         /\ f_record.tag = "record" <=>
              /\ \A i \in 2..Len(f_calls) :
                   f_calls[i].out \in {"ok", "None", "str", "article", "ArticleNotFound"}
              /\ f_calls[Len(f_calls) - 1].out = "article"

\* The slug was not found, resolved to another slug and fetched under it.
C20_Witness ==
  /\ f_pc = "done" /\ f_kind = "grokipedia" /\ f_record.tag = "record"
  /\ Len(f_calls) = 6
  /\ f_calls[3] = Call3("get_article", Tesla, "ArticleNotFound")
  /\ f_calls[4].call = "find_slug" /\ f_calls[4].val = Tesla_Inc
  /\ f_calls[5] = Call3("get_article", Tesla_Inc, "article")

----------------------------------------------------------------------------
(* Properties of the provider chain (checked under Spec).                  *)

\* A provider call is in flight.
InFlight == g_pc \in {"xai", "openrouter"}

\* C21: provider attempts within one generation request are strictly
\* sequential and never repeated: each provider is contacted at most once,
\* the fallback only after the primary attempt has completed (every call
\* but the one in flight has its response), and no request makes more
\* than two provider calls.
C21_SequentialAttempts ==
  /\ Len(g_calls) <= 2
  /\ \A i, j \in 1..Len(g_calls) : g_calls[i] = g_calls[j] => i = j
  /\ Len(g_calls) = 2 => g_calls = <<"xai", "openrouter">>
  /\ Len(g_resps) = IF InFlight THEN Len(g_calls) - 1 ELSE Len(g_calls)
  /\ InFlight => Last(g_calls) = g_pc

\* The fallback is in flight and the primary's response has been received.
C21_Witness ==
  /\ g_pc = "openrouter" /\ g_calls = <<"xai", "openrouter">> /\ Len(g_resps) = 1

\* The primary's attempt ended in a non-2xx status other than 429, or in a
\* transport exception or timeout.
PrimaryFailed ==
  /\ g_resps # <<>> /\ g_calls[1] = "xai"
  /\ g_resps[1].exc \/ g_resps[1].status \notin {200, 429}

\* C22: whenever the primary attempt fails for a reason other than rate
\* limiting (non-2xx status, transport exception or timeout) and a fallback
\* provider is configured, the request contacts the fallback before it
\* ends; for every generation kind.
C22_FailureFallsBack ==
  (g_xai /\ g_or /\ PrimaryFailed /\ g_pc = "done") => g_calls = <<"xai", "openrouter">>

\* What a request ends with when it has no text to return: None, or one of
\* the exceptions of generate_edit_suggestions.
ProviderErrors ==
  {Outcome(t) : t \in {"None", "RuntimeError", "HTTPError", "RequestException", "JSONDecodeError"}}

\* Both providers were tried and the fallback's call failed as well.
BothFailed ==
  /\ g_pc = "done" /\ g_calls = <<"xai", "openrouter">> /\ ChatFailed(g_resps[2])

PrimarySucceeded ==
  /\ g_resps # <<>> /\ g_calls[1] = "xai"
  /\ ~g_resps[1].exc /\ g_resps[1].status = 200 /\ g_resps[1].json = "ok"
  /\ g_resps[1].text # <<>>

\* The primary returned status 200 with a well-formed body without text.
PrimaryEmpty ==
  /\ g_resps # <<>> /\ g_calls[1] = "xai"
  /\ ~g_resps[1].exc /\ g_resps[1].status = 200 /\ g_resps[1].json = "ok"
  /\ g_resps[1].text = <<>>

\* C27: the fallback provider is never contacted in a request whose primary
\* attempt returned status 200 with non-empty text, and the primary's text
\* is the result.  After a 200 primary response with empty text
\* compare_articles goes on to the fallback when it is configured, and
\* generate_grokipedia_article returns None without contacting it.
C27_NoFallbackAfterSuccess ==
  /\ PrimarySucceeded =>
       /\ g_calls = <<"xai">> /\ g_pc = "done"
       /\ g_result.tag = "text"
       /\ \E pre \in {<<>>, WithHeading(g_title, <<>>)} :
            StripWs(g_result.text) = StripWs(pre \o g_resps[1].text)
  /\ (PrimaryEmpty /\ g_kind = "compare" /\ g_or) =>
       (g_calls = <<"xai", "openrouter">> /\ (g_pc = "done" => Len(g_resps) = 2))
  /\ (PrimaryEmpty /\ g_kind = "rewrite") =>
       (g_calls = <<"xai">> /\ g_pc = "done" /\ g_result = Outcome("None"))

\* generate_grokipedia_article returned the primary's text although the
\* fallback is configured.
C27_Witness ==
  /\ g_kind = "rewrite" /\ g_xai /\ g_or /\ PrimarySucceeded /\ g_pc = "done"
  /\ g_calls = <<"xai">> /\ g_result.tag = "text"

----------------------------------------------------------------------------
(* Properties of the prompt body (checked under SpecBody).                 *)

\* The maximal runs of non-whitespace characters of a text, in order.
RECURSIVE Pieces(_)
Pieces(s) ==
  IF s = <<>> THEN <<>>
  ELSE IF Head(s) \in Whitespace THEN Pieces(Tail(s))
  ELSE LET rest == Pieces(Tail(s))
       IN IF Len(s) > 1 /\ s[2] \notin Whitespace
          THEN <<<<Head(s)>> \o Head(rest)>> \o Tail(rest)
          ELSE <<<<Head(s)>>>> \o rest

\* The record's summary or intro followed by its sections, without regard
\* to the whitespace that joins them.
FallbackPieces(record) ==
  Pieces(OrEmpty(record.lead)) \o Pieces(Join(OrEmpty(record.sections), <<" ">>))

\* full_text is present and non-empty.
HasFullText(record) == record.full_text.tag = "str" /\ record.full_text.val # <<>>

\* C24 as stated: the body interpolated into the prompt is full_text when
\* full_text is non-empty, and otherwise the concatenation of the record's
\* summary or intro with its joined sections.
C24_BodyAsStated ==
  b_pc = "done" =>
    IF HasFullText(b_record) THEN b_body = b_record.full_text.val
    ELSE Pieces(b_body) = FallbackPieces(b_record)

\* C24: the body interpolated into the prompt is full_text when full_text
\* is non-empty, as it is in comparison_service and with its surrounding
\* whitespace stripped in generate_edit_suggestions, and otherwise the
\* concatenation of the record's summary or intro with its joined sections;
\* the fallback text is never used when full_text is present.
C24_BodySelection ==
  b_pc = "done" =>
    IF HasFullText(b_record)
    THEN b_body = IF b_fn = "generate_edit_suggestions" THEN StripWs(b_record.full_text.val)
                  ELSE b_record.full_text.val
    ELSE Pieces(b_body) = FallbackPieces(b_record)

\* A record with full text, summary and sections: the body is the full text
\* alone.
C24_Witness ==
  /\ b_pc = "done" /\ b_fn = "generate_edit_suggestions"
  /\ b_record.full_text = Str(<<" ", "b", "^J">>) /\ b_record.lead = Str(<<"s">>)
  /\ b_record.sections = List(<<<<"x">>, <<"y", " ">>>>)
  /\ b_body = <<"b">>

\* A record without full text: the body is the summary and the sections.
C24_WitnessFallback ==
  /\ b_pc = "done" /\ b_fn = "compare_articles" /\ b_record.full_text = None
  /\ b_record.lead = Str(<<"s">>) /\ b_record.sections = List(<<<<"x">>, <<"y", " ">>>>)
  /\ b_body = <<"s", "^J", "^J", "x", "^J", "y", " ">>

----------------------------------------------------------------------------
(* Properties of the outbound calls (checked under SpecOutbound).          *)

\* A call of the fetcher ended in a timeout or transport failure.
FetchTransportFailed ==
  \E i \in 1..Len(f_calls) : f_calls[i].out \in {"exc", "RequestError"}

\* The provider request ended on a timeout or transport failure.
ProviderTransportFailed == g_pc = "done" /\ g_resps # <<>> /\ Last(g_resps).exc

\* C25: a timeout or transport failure of an outbound call (article fetch
\* or provider request) is a reported failure, not a crash: the fetch
\* returns None, the generation returns None or its exception is answered
\* by the handler with an error status, and every handler ends in a
\* response.
C25_TimeoutIsReported ==
  /\ (f_pc = "done" /\ FetchTransportFailed) => f_record = None
  /\ a_pc = "done" => a_resp.status \in {200, 400, 404, 429, 500, 502}
  /\ ProviderTransportFailed =>
       /\ g_result \in {Outcome("None"), Outcome("RequestException")}
       /\ a_pc = "done" =>
            \/ a_resp.status \in {500, 502} /\ DOMAIN a_resp.payload = {"error"}
            \/ /\ a_route = "compare" /\ a_resp.status = 200
               /\ a_resp.payload.comparison = Outcome("None")

\* The xAI call of generate_edit_suggestions timed out: status 500.
C25_Witness ==
  /\ a_route = "edits" /\ a_pc = "done" /\ ProviderTransportFailed
  /\ g_result = Outcome("RequestException") /\ a_resp.status = 500

\* The second get_article of a fetch failed in transport: None.
C25_WitnessFetch ==
  /\ f_pc = "done" /\ f_kind = "grokipedia" /\ f_record = None
  /\ \E i \in 1..Len(f_calls) :
       /\ f_calls[i].call = "get_article" /\ f_calls[i].out = "RequestError"
       /\ i > 1 /\ f_calls[i - 1].call = "find_slug"

----------------------------------------------------------------------------
(* Properties of the slugs extracted (checked under SpecUrl).              *)

\* The value of the first title field as it is written in the query: the
\* fields are split as parse_qs splits them, '+' stands for a space, and
\* percent-escapes are left as they are.
WrittenTitle(query) ==
  LET fields == SelectSeq(IF query = <<>> THEN <<>> ELSE SplitAll(query, <<"&">>),
                          LAMBDA f : /\ Contains(f, <<"=">>) /\ SplitTail(f, <<"=">>) # <<>>
                                     /\ unquote(Replace(SplitHead(f, <<"=">>), "+", " "))
                                          = <<"t", "i", "t", "l", "e">>)
  IN Replace(SplitTail(fields[1], <<"=">>), "+", " ")

\* The slug as it is written in a URL whose title was extracted: what
\* follows /page/ or /wiki/ in the path, or the value of the title field.
WrittenSlug(url) ==
  LET parsed == urlparse(url)
      marker == IF IsGrokipediaHost(Lower(parsed.netloc))
                THEN <<"/", "p", "a", "g", "e", "/">> ELSE <<"/", "w", "i", "k", "i", "/">>
  IN IF Contains(parsed.path, marker) THEN SplitTail(parsed.path, marker)
     ELSE WrittenTitle(parsed.query)

\* The written slug percent-decoded once, cut at the fragment marker, with
\* spaces replaced by underscores and the path separators at its ends
\* stripped.
NormalizedOnce(written) ==
  Strip(Replace(SplitHead(unquote(written), <<"#">>), " ", "_"), {"/"})

\* The slug extracted from a handled URL came from the title field of the
\* query.
FromQuery(i) ==
  /\ titles[i].tag = "str"
  /\ ~Contains(urlparse(urls[i]).path, <<"/", "w", "i", "k", "i", "/">>)
  /\ IsWikipediaHost(Lower(urlparse(urls[i]).netloc))

\* C26: every slug returned by extract_article_title is normalized:
\* percent-decoded once, without '#' and anything after a fragment marker,
\* without literal space, and without leading or trailing '/'.
C26_SlugNormalized ==
  \A i \in 1..Len(titles) :
    titles[i].tag = "str" =>
      /\ "#" \notin Range(titles[i].val)
      /\ " " \notin Range(titles[i].val)
      /\ ~StartsWith(titles[i].val, <<"/">>) /\ ~EndsWith(titles[i].val, <<"/">>)
      /\ titles[i].val = NormalizedOnce(WrittenSlug(urls[i]))

----------------------------------------------------------------------------
(* Properties of the route handlers' order of work (checked under SpecApi). *)

\* The generation functions compare calls.
GenerationNames ==
  {"compare_articles", "generate_grokipedia_tldr", "generate_wikipedia_summary"}

\* Both fetchers were called before position i of the handler's calls.
BothFetchedBefore(i) ==
  /\ \E j \in 1..(i - 1) : a_calls[j] = "fetch_grokipedia_article"
  /\ \E k \in 1..(i - 1) : a_calls[k] = "scrape_wikipedia"

\* C28: in compare a generation request (report, TLDR, summary) is issued
\* only after both fetchers were called and both returned a record; when a
\* fetch returned None no generation function is called and no provider is
\* contacted.
C28_GenerationAfterBothFetched ==
  a_route = "compare" =>
    /\ \A i \in 1..Len(a_calls) :
         a_calls[i] \in GenerationNames =>
           /\ BothFetchedBefore(i)
           /\ a_env.grok.tag = "record" /\ a_env.wiki.tag = "record"
    /\ g_pc # "off" =>
         /\ BothFetchedBefore(Len(a_calls) + 1)
         /\ a_env.grok.tag = "record" /\ a_env.wiki.tag = "record"
    /\ (a_pc \in {"generate", "done"} /\ (a_env.grok = None \/ a_env.wiki = None)) =>
         /\ Range(a_calls) \cap GenerationNames = {}
         /\ g_pc = "off" /\ g_calls = <<>>

\* compare fetched both articles, a provider answered the report request,
\* and the TLDR and the summary were asked for.
C28_Witness ==
  /\ a_route = "compare" /\ a_pc = "done" /\ g_calls # <<>>
  /\ a_env.grok.tag = "record" /\ a_env.wiki.tag = "record"
  /\ GenerationNames \subseteq Range(a_calls)

\* The slug create looks for in the index: the title of the URL given, the
\* slug the local index resolved the text to, or the text with underscores.
RequestedSlug ==
  With(FieldOrEmpty(a_data.article_url), LAMBDA article_url :
    IF detect_source(article_url) = "None"
    THEN IF Truthy(a_env.resolved) THEN a_env.resolved.val
         ELSE Replace(article_url, " ", "_")
    ELSE extract_article_title(article_url).val)

\* create searched the index and the index holds a slug equal to the
\* requested one, case and underscores aside.
IndexHasRequested ==
  /\ a_route = "create" /\ a_pc \in {"generate", "done"}
  /\ a_env.index.tag = "slugs"
  /\ \E i \in 1..Len(a_env.index.val) :
       Lower(Replace(a_env.index.val[i], "_", " ")) = Lower(Replace(RequestedSlug, "_", " "))

\* The existence check of create failed: the search raised, or the fetch of
\* the article found returned None or raised.
ExistenceCheckFailed ==
  \/ a_route = "create" /\ a_pc \in {"generate", "done"} /\ a_env.index = Raised
  \/ IndexHasRequested /\ a_env.grok \in {None, Raised}

\* C29: when create finds the requested slug in the index and fetches that
\* article, it answers existing_article = TRUE without fetching Wikipedia
\* and without the rewrite generation; when the check fails or raises it
\* goes on to fetch Wikipedia and, given the article, to generate.
C29_ExistingArticleShortCircuits ==
  /\ (IndexHasRequested /\ a_env.grok.tag = "record") =>
       /\ a_pc = "done" /\ a_resp.status = 200
       /\ a_resp.payload.existing_article = TRUE
       /\ a_resp.payload.grokipedia.record = a_env.grok
       /\ "scrape_wikipedia" \notin Range(a_calls)
       /\ "generate_grokipedia_article" \notin Range(a_calls)
       /\ a_env.wiki = Pending /\ g_pc = "off" /\ g_calls = <<>>
  /\ ExistenceCheckFailed =>
       /\ "scrape_wikipedia" \in Range(a_calls)
       /\ a_env.wiki.tag = "record" =>
            /\ a_calls[Len(a_calls)] = "generate_grokipedia_article" /\ g_pc # "off"
            /\ a_pc = "done" => a_resp.status \in {200, 502}
       /\ a_env.wiki = None => a_resp.status = 404
       /\ a_resp.status = 500 => a_env.wiki = Raised

\* Free text that differs from the indexed slug in case and underscore: the
\* existing article is returned.
C29_Witness ==
  /\ IndexHasRequested /\ a_env.grok.tag = "record"
  /\ a_data.article_url = Str(q_tesla_inc) /\ a_env.resolved = None
  /\ a_resp.payload.existing_article = TRUE

\* The fetch of the article found raised and create went on to generate.
C29_WitnessContinues ==
  /\ IndexHasRequested /\ a_env.grok = Raised
  /\ a_pc = "done" /\ a_resp.status = 200
  /\ a_resp.payload.existing_article = FALSE

----------------------------------------------------------------------------
(* Properties of the SDK client of a fetch (checked under SpecFetch).      *)

\* The positions at which get_sdk_client returned a client.
ClientAcquired == {i \in CallsOf("get_sdk_client") : f_calls[i].out = "ok"}

\* The positions of the calls made on the client.
ClientCalls == CallsOf("get_article") \cup CallsOf("find_slug")

\* C30: fetch_grokipedia_article asks for an SDK client only after the
\* markdown extraction returned no markdown, at most once; a client that
\* was acquired is closed exactly once, as the last call of the fetch and
\* after every call made on it, whether the fetch ends with the article,
\* with not-found (the re-resolution path included) or with an error; and
\* nothing is closed when no client was acquired.
C30_ClientClosedOnce ==
  (f_pc = "done" /\ f_kind = "grokipedia") =>
    /\ Cardinality(CallsOf("get_sdk_client")) <= 1
    /\ \A i \in CallsOf("get_sdk_client") :
         /\ i = 2 /\ f_calls[1].call = "firecrawl"
         /\ f_calls[1].out \in {"None", "empty"}
    /\ Cardinality(CallsOf("close")) = Cardinality(ClientAcquired)
    /\ \A i \in ClientAcquired :
         /\ Last(f_calls).call = "close"
         /\ \A j \in ClientCalls : i < j /\ j < Len(f_calls)
    /\ ClientAcquired = {} => ClientCalls = {}

\* Not found, resolved to another slug, not found again: the fetch returns
\* None and the client was closed after the second get_article.
C30_Witness ==
  /\ f_pc = "done" /\ f_kind = "grokipedia" /\ f_record = None
  /\ Len(f_calls) = 6 /\ ClientAcquired = {2}
  /\ f_calls[4].call = "find_slug"
  /\ f_calls[5] = Call3("get_article", Tesla_Inc, "ArticleNotFound")
  /\ f_calls[6] = Call3("close", <<>>, "ok")

\* find_slug raised: the exception passes the finally clause, which closes
\* the client.
C30_WitnessError ==
  /\ f_pc = "done" /\ f_kind = "grokipedia" /\ f_record = None
  /\ Len(f_calls) = 5 /\ f_calls[4].call = "find_slug" /\ f_calls[4].out = "raise"
  /\ f_calls[5].call = "close"


====
